---- MODULE Spec2Model ----
(***************************************************************************)
(* Qualgen-WO: recurrence engine, completion ledger and compliance report  *)
(* of backend/src/index.ts, with the calendar view of frontend/src/App.vue.*)
(*                                                                         *)
(* Representation.                                                         *)
(*   - A date text ("YYYY-MM-DD") is the integer YYYYMMDD, the three       *)
(*     digit fields kept as written (20240230 is the text "2024-02-30");   *)
(*     comparing two such integers is comparing the texts lexically.       *)
(*     NoIso is null / the empty text, NonIsoText a non-empty text that    *)
(*     does not match isoDateRegex.                                        *)
(*   - A JavaScript Date at local midnight is its day number (days since   *)
(*     0000-03-01, proleptic Gregorian); NoDate is null.                   *)
(*   - Any other text is the sequence of its characters.                   *)
(***************************************************************************)
EXTENDS Integers, Sequences, FiniteSets, TLC

NoIso == 0
NonIsoText == 1
NoDate == 0 - 1
NoText == << >>

(***************************************************************************)
(* Calendar arithmetic (JavaScript Date, local calendar fields)            *)
(***************************************************************************)
IsLeapYear(y) == (y % 4 = 0 /\ y % 100 # 0) \/ y % 400 = 0

DaysInMonth(y, m) ==
    IF m = 2 THEN (IF IsLeapYear(y) THEN 29 ELSE 28)
    ELSE IF m \in {4, 6, 9, 11} THEN 30 ELSE 31

\* the day number of day-of-year doy (counted from 1 March) of year yoe of
\* the 400-year era
daysOfEra(era, yoe, doy) ==
    era * 146097 + yoe * 365 + yoe \div 4 - yoe \div 100 + doy

\* the same for year yy and month mp, both counted from March
daysOfShifted(yy, mp, d) ==
    daysOfEra(yy \div 400, yy % 400, (153 * mp + 2) \div 5 + d - 1)

\* new Date(y, m - 1, d): the day number of a calendar date; d may exceed the
\* month's length, the excess rolling into the following month.
DaysFromCivil(y, m, d) ==
    daysOfShifted(IF m <= 2 THEN y - 1 ELSE y, (m + 9) % 12, d)

civilOfMonth(era, yoe, doy, mp) ==
    [year  |-> yoe + era * 400 + (IF mp >= 10 THEN 1 ELSE 0),
     month |-> IF mp < 10 THEN mp + 3 ELSE mp - 9,
     day   |-> doy - (153 * mp + 2) \div 5 + 1]

civilOfDay(era, yoe, doy) == civilOfMonth(era, yoe, doy, (5 * doy + 2) \div 153)

civilOfYear(era, doe, yoe) ==
    civilOfDay(era, yoe, doe - (365 * yoe + yoe \div 4 - yoe \div 100))

civilOfEra(era, doe) ==
    civilOfYear(era, doe,
                (doe - doe \div 1460 + doe \div 36524 - doe \div 146096) \div 365)

\* getFullYear / getMonth + 1 / getDate of a Date
CivilFromDays(z) == civilOfEra(z \div 146097, z % 146097)

IsoYear(s) == s \div 10000
IsoMonth(s) == (s \div 100) % 100
IsoDay(s) == s % 100

\* isoDateRegex.test(value)
isoDateRegexTest(value) == value >= 10000

\* parseIsoDate: the regex, then new Date(`${value}T00:00:00`). V8 accepts a
\* month 01..12 with a day 01..31 and lets a day past the month's end roll over
\* (2024-02-30 is 1 March 2024); anything else is an Invalid Date.
parseIsoDate(value) ==
    IF ~isoDateRegexTest(value) THEN NoDate
    ELSE IF IsoMonth(value) \notin 1..12 \/ IsoDay(value) \notin 1..31 THEN NoDate
    ELSE DaysFromCivil(IsoYear(value), IsoMonth(value), IsoDay(value))

isoOfCivil(c) == c.year * 10000 + c.month * 100 + c.day

toIsoDate(date) == isoOfCivil(CivilFromDays(date))

addDays(date, days) == date + days

Min(a, b) == IF a < b THEN a ELSE b

\* a mutant of clampedDate: the day of the month set without the clamp
clampedDate_NoClamp(year, month, dayOfMonth) == DaysFromCivil(year, month, dayOfMonth)

\* a mutant of clampedDate: always the last day of the month
clampedDate_MonthEnd(year, month, dayOfMonth) ==
    DaysFromCivil(year, month, DaysInMonth(year, month))

\* next.setDate(Math.min(dayOfMonth, maxDay)) in the month next.setMonth set
clampedDate(year, month, dayOfMonth) ==
    DaysFromCivil(year, month, Min(dayOfMonth, DaysInMonth(year, month)))

\* next.setDate(1); next.setMonth(next.getMonth() + months), the months
\* counted from year 0
monthAt(index, dayOfMonth) == clampedDate(index \div 12, (index % 12) + 1, dayOfMonth)

addMonthsCivil(c, months) == monthAt(c.year * 12 + (c.month - 1) + months, c.day)

addMonths(date, months) == addMonthsCivil(CivilFromDays(date), months)

(***************************************************************************)
(* Recurrence rules                                                        *)
(***************************************************************************)
weekly       == <<"w","e","e","k","l","y">>
biWeekly     == <<"b","i","-","w","e","e","k","l","y">>
monthly      == <<"m","o","n","t","h","l","y">>
biMonthly    == <<"b","i","-","m","o","n","t","h","l","y">>
quarterly    == <<"q","u","a","r","t","e","r","l","y">>
every6Months == <<"e","v","e","r","y","-","6","-","m","o","n","t","h","s">>
yearly       == <<"y","e","a","r","l","y">>
biYearly     == <<"b","i","-","y","e","a","r","l","y">>

recurrenceValues ==
    {weekly, biWeekly, monthly, biMonthly, quarterly, every6Months, yearly, biYearly}

asRecurrence(value) ==
    IF value = NoText THEN NoText
    ELSE IF value \in recurrenceValues THEN value ELSE NoText

\* a mutant of nextRecurringDate: the date is not moved
nextRecurringDate_NoStep(date, recurrence) == date

\* a mutant of nextRecurringDate: the quarter taken for a month
nextRecurringDate_QuarterAsMonth(date, recurrence) ==
    IF recurrence = weekly THEN addDays(date, 7)
    ELSE IF recurrence = biWeekly THEN addDays(date, 14)
    ELSE IF recurrence \in {monthly, quarterly} THEN addMonths(date, 1)
    ELSE IF recurrence = biMonthly THEN addMonths(date, 2)
    ELSE IF recurrence = every6Months THEN addMonths(date, 6)
    ELSE IF recurrence = yearly THEN addMonths(date, 12)
    ELSE addMonths(date, 24)

nextRecurringDate(date, recurrence) ==
    IF recurrence = weekly THEN addDays(date, 7)
    ELSE IF recurrence = biWeekly THEN addDays(date, 14)
    ELSE IF recurrence = monthly THEN addMonths(date, 1)
    ELSE IF recurrence = biMonthly THEN addMonths(date, 2)
    ELSE IF recurrence = quarterly THEN addMonths(date, 3)
    ELSE IF recurrence = every6Months THEN addMonths(date, 6)
    ELSE IF recurrence = yearly THEN addMonths(date, 12)
    ELSE addMonths(date, 24)


(***************************************************************************)
(* Lenient recurrence parser (free-text calibration frequency)             *)
(***************************************************************************)
UpperChars == <<"A","B","C","D","E","F","G","H","I","J","K","L","M","N","O","P","Q","R","S","T","U","V","W","X","Y","Z">>
LowerChars == <<"a","b","c","d","e","f","g","h","i","j","k","l","m","n","o","p","q","r","s","t","u","v","w","x","y","z">>

\* String.prototype.toLowerCase, one character
toLowerCaseChar(c) ==
    IF \E i \in 1..Len(UpperChars) : UpperChars[i] = c
    THEN LowerChars[CHOOSE i \in 1..Len(UpperChars) : UpperChars[i] = c]
    ELSE c

toLowerCase(value) == [i \in 1..Len(value) |-> toLowerCaseChar(value[i])]

\* \s of the regular expressions and the white space trim() removes
IsWhiteSpace(c) == c \in {" ", "\t", "\n"}

RECURSIVE trimStart(_)
trimStart(value) ==
    IF value # << >> /\ IsWhiteSpace(Head(value)) THEN trimStart(Tail(value)) ELSE value

RECURSIVE trimEnd(_)
trimEnd(value) ==
    IF value # << >> /\ IsWhiteSpace(value[Len(value)])
    THEN trimEnd(SubSeq(value, 1, Len(value) - 1))
    ELSE value

trim(value) == trimEnd(trimStart(value))

\* value.replace(/[_\s]+/g, '-'): every maximal run of underscores and white
\* space becomes one hyphen
RECURSIVE replaceSeparators(_)
replaceSeparators(value) ==
    IF value = << >> THEN << >>
    ELSE IF Head(value) = "_" \/ IsWhiteSpace(Head(value))
         THEN IF Len(value) > 1 /\ (value[2] = "_" \/ IsWhiteSpace(value[2]))
              THEN replaceSeparators(Tail(value))
              ELSE <<"-">> \o replaceSeparators(Tail(value))
         ELSE <<Head(value)>> \o replaceSeparators(Tail(value))

\* value.replace(/-+/g, '-'): every maximal run of hyphens becomes one hyphen
RECURSIVE collapseHyphens(_)
collapseHyphens(value) ==
    IF value = << >> THEN << >>
    ELSE IF Head(value) = "-" /\ Len(value) > 1 /\ value[2] = "-"
         THEN collapseHyphens(Tail(value))
         ELSE <<Head(value)>> \o collapseHyphens(Tail(value))

normalizeRecurrenceText(value) ==
    collapseHyphens(replaceSeparators(trim(toLowerCase(value))))

\* the alias table of asFlexibleRecurrence: <<key, rule>>
aliases ==
    { <<<<"w","e","e","k","l","y">>, weekly>>,
      <<<<"e","v","e","r","y","-","w","e","e","k">>, weekly>>,
      <<<<"b","i","w","e","e","k","l","y">>, biWeekly>>,
      <<<<"b","i","-","w","e","e","k","l","y">>, biWeekly>>,
      <<<<"e","v","e","r","y","-","2","-","w","e","e","k","s">>, biWeekly>>,
      <<<<"m","o","n","t","h","l","y">>, monthly>>,
      <<<<"e","v","e","r","y","-","m","o","n","t","h">>, monthly>>,
      <<<<"b","i","m","o","n","t","h","l","y">>, biMonthly>>,
      <<<<"b","i","-","m","o","n","t","h","l","y">>, biMonthly>>,
      <<<<"e","v","e","r","y","-","2","-","m","o","n","t","h","s">>, biMonthly>>,
      <<<<"q","u","a","r","t","e","r","l","y">>, quarterly>>,
      <<<<"e","v","e","r","y","-","3","-","m","o","n","t","h","s">>, quarterly>>,
      <<<<"e","v","e","r","y","-","6","-","m","o","n","t","h","s">>, every6Months>>,
      <<<<"6","-","m","o","n","t","h","s">>, every6Months>>,
      <<<<"s","e","m","i","a","n","n","u","a","l">>, every6Months>>,
      <<<<"s","e","m","i","-","a","n","n","u","a","l">>, every6Months>>,
      <<<<"y","e","a","r","l","y">>, yearly>>,
      <<<<"a","n","n","u","a","l">>, yearly>>,
      <<<<"a","n","n","u","a","l","l","y">>, yearly>>,
      <<<<"e","v","e","r","y","-","y","e","a","r">>, yearly>>,
      <<<<"b","i","-","y","e","a","r","l","y">>, biYearly>>,
      <<<<"b","i","y","e","a","r","l","y">>, biYearly>>,
      <<<<"b","i","e","n","n","i","a","l">>, biYearly>>,
      <<<<"e","v","e","r","y","-","2","-","y","e","a","r","s">>, biYearly>> }

\* the table is an object literal, so aliases[key] also finds what every object
\* inherits from Object.prototype; of those names only 'constructor' is a text
\* the normalisation can give (the others have a capital or underscores)
constructorText == <<"c","o","n","s","t","r","u","c","t","o","r">>

\* aliases['constructor']: the function Object, no text at all
objectConstructor == <<"f","u","n","c","t","i","o","n"," ","O","b","j","e","c","t">>

\* direct ?? aliases[normalized] ?? null
recurrenceOfNormalized(normalized) ==
    IF asRecurrence(normalized) # NoText THEN asRecurrence(normalized)
    ELSE IF \E a \in aliases : a[1] = normalized
    THEN (CHOOSE a \in aliases : a[1] = normalized)[2]
    ELSE IF normalized = constructorText THEN objectConstructor
    ELSE NoText

asFlexibleRecurrence(value) ==
    IF value = NoText THEN NoText
    ELSE recurrenceOfNormalized(normalizeRecurrenceText(value))


(***************************************************************************)
(* Occurrence generator                                                    *)
(***************************************************************************)
FastForwardCap == 500
TotalCap == 700
CalendarTotalCap == 600

\* How often a loop body is unrolled at most; the loops' own guards stop them
\* earlier (every pass adds one to safety).
LoopFuel == 1024

\* a mutant of fastForwardGuard: the step cap forgotten
fastForwardGuard_NoCap(st, startDate, cap) ==
    st.occurrence < startDate

\* while (occurrence < startDate && safety < cap)
fastForwardGuard(st, startDate, cap) ==
    st.occurrence < startDate /\ st.safety < cap

\* one pass of the first loop: occurrence = nextRecurringDate(...); safety += 1
fastForwardBody(st, recurrence) ==
    [st EXCEPT !.occurrence = nextRecurringDate(st.occurrence, recurrence),
               !.safety = st.safety + 1,
               !.fastForwardCalls = st.fastForwardCalls + 1]

\* while (occurrence <= endDate && safety < cap)
collectGuard(st, endDate, cap) ==
    st.occurrence <= endDate /\ st.safety < cap

\* one pass of the second loop: push, advance, safety += 1
collectBody(st, recurrence) ==
    [st EXCEPT !.dueDates = Append(st.dueDates, toIsoDate(st.occurrence)),
               !.occurrence = nextRecurringDate(st.occurrence, recurrence),
               !.safety = st.safety + 1]

\* at most n passes of the first loop, started in st
RECURSIVE fastForwardLoop(_, _, _, _, _)
fastForwardLoop(st, n, startDate, recurrence, cap) ==
    IF n = 0 \/ ~fastForwardGuard(st, startDate, cap) THEN st
    ELSE IF n = 1 THEN fastForwardBody(st, recurrence)
    ELSE fastForwardLoop(fastForwardLoop(st, n \div 2, startDate, recurrence, cap),
                         n - n \div 2, startDate, recurrence, cap)

\* at most n passes of the second loop, started in st
RECURSIVE collectLoop(_, _, _, _, _)
collectLoop(st, n, endDate, recurrence, cap) ==
    IF n = 0 \/ ~collectGuard(st, endDate, cap) THEN st
    ELSE IF n = 1 THEN collectBody(st, recurrence)
    ELSE collectLoop(collectLoop(st, n \div 2, endDate, recurrence, cap),
                     n - n \div 2, endDate, recurrence, cap)

\* let occurrence = new Date(anchor); let safety = 0; dueDates = []
initialLoopState(anchor) ==
    [occurrence |-> anchor, safety |-> 0, dueDates |-> << >>, fastForwardCalls |-> 0]

\* the loop variables at the return, st1 after the first loop and st2 after the
\* second; exited says that both loops ended by their own guards
loopsResult(st1, st2, startDate, endDate, firstCap, totalCap) ==
    [dueDates |-> st2.dueDates,
     occurrence |-> st2.occurrence,
     safety |-> st2.safety,
     fastForwardCalls |-> st2.fastForwardCalls,
     exited |-> ~fastForwardGuard(st1, startDate, firstCap)
                /\ ~collectGuard(st2, endDate, totalCap)]

\* the second loop, entered with the variables st1 the first loop left
collectPhase(st1, recurrence, startDate, endDate, firstCap, totalCap) ==
    loopsResult(st1, collectLoop(st1, LoopFuel, endDate, recurrence, totalCap),
                startDate, endDate, firstCap, totalCap)

\* the two loops of buildDueDatesInRange / buildCalibrationDueDatesInRange /
\* buildLocationEventsBetween, from `let occurrence = new Date(anchor)` to the
\* return
dueDateLoops(anchor, recurrence, startDate, endDate, firstCap, totalCap) ==
    collectPhase(fastForwardLoop(initialLoopState(anchor), LoopFuel, startDate,
                                 recurrence, firstCap),
                 recurrence, startDate, endDate, firstCap, totalCap)

\* what a call that returns before the loops leaves behind
noLoops(dueDates) ==
    [dueDates |-> dueDates, occurrence |-> NoDate, safety |-> 0,
     fastForwardCalls |-> 0, exited |-> TRUE]

\* pm.recurrence ?? pm.frequency
pmRecurrenceText(pm) == IF pm.recurrence # NoText THEN pm.recurrence ELSE pm.frequency

\* pm.scheduleAnchor ?? pm.nextDue
pmAnchorRaw(pm) == IF pm.scheduleAnchor # NoIso THEN pm.scheduleAnchor ELSE pm.nextDue

\* buildDueDatesInRange with its loop variables
buildDueDatesInRangeRun(pm, startDate, endDate) ==
    LET recurrence == asRecurrence(pmRecurrenceText(pm))
        anchorRaw  == pmAnchorRaw(pm)
    IN  IF recurrence = NoText \/ anchorRaw = NoIso THEN noLoops(<< >>)
        ELSE LET anchor == parseIsoDate(anchorRaw)
             IN  IF anchor = NoDate THEN noLoops(<< >>)
                 ELSE dueDateLoops(anchor, recurrence, startDate, endDate,
                                   FastForwardCap, TotalCap)

buildDueDatesInRange(pm, startDate, endDate) ==
    buildDueDatesInRangeRun(pm, startDate, endDate).dueDates

\* if (anchor >= startDate && anchor <= endDate) of the one-time calibration
anchorInWindow(anchor, startDate, endDate) ==
    anchor >= startDate /\ anchor <= endDate

\* buildCalibrationDueDatesInRange with its loop variables
buildCalibrationDueDatesInRangeRun(asset, startDate, endDate) ==
    LET anchorRaw == asset.calDue
    IN  IF anchorRaw = NoIso THEN noLoops(<< >>)
        ELSE LET anchor == parseIsoDate(anchorRaw)
             IN  IF anchor = NoDate THEN noLoops(<< >>)
                 ELSE LET recurrence == asFlexibleRecurrence(asset.calFreq)
                      IN  IF recurrence = NoText
                          THEN IF anchorInWindow(anchor, startDate, endDate)
                               THEN noLoops(<<toIsoDate(anchor)>>)
                               ELSE noLoops(<< >>)
                          ELSE dueDateLoops(anchor, recurrence, startDate, endDate,
                                            FastForwardCap, TotalCap)

buildCalibrationDueDatesInRange(asset, startDate, endDate) ==
    buildCalibrationDueDatesInRangeRun(asset, startDate, endDate).dueDates


(***************************************************************************)
(* State                                                                   *)
(***************************************************************************)
VARIABLES
    pms,          \* table preventative_maintenances: id -> row
    assets,       \* table assets: id -> row
    pmHistory,    \* table pm_completion_history: set of rows
    calHistory,   \* table calibration_completion_history: set of rows
    nextId,       \* the auto-increment counters of the two history tables
    locations,    \* table locations: id -> row
    graph,        \* the Microsoft Graph calendar and the server's settings for it
    today,        \* the server's calendar date, todayIso()
    logged,       \* number of completion-logging requests received so far
    response,     \* the last request served and its response
    reqs,         \* the completion-logging requests in flight, by request
    gen,          \* pure functions on their own: the arguments
    genOut        \* pure functions on their own: what the calls returned

vars == <<pms, assets, pmHistory, calHistory, nextId, locations, graph, today,
          logged, response, reqs, gen, genOut>>

dbVars == <<pms, assets, pmHistory, calHistory, nextId, locations>>

\* no Microsoft Graph settings in the environment, nothing in the calendar
NoGraph == [configured |-> FALSE, events |-> {}, requests |-> 0]

NotRun == [dueDates |-> << >>, occurrence |-> NoDate, safety |-> 0 - 1,
           fastForwardCalls |-> 0 - 1, exited |-> FALSE]

NoResponse == [op |-> "none", status |-> 0]

(***************************************************************************)
(* The occurrence generator on its own: SpecGen                            *)
(***************************************************************************)
everyWeekText == <<"E","v","e","r","y"," ","W","e","e","k">>
annualText    == <<"A","n","n","u","a","l">>
asNeededText  == <<"a","s"," ","n","e","e","d","e","d">>

\* recurrence / calFreq texts the generator is tried on
GenRuleTexts ==
    recurrenceValues \cup {NoText, everyWeekText, annualText, asNeededText}

\* anchor texts: far before the windows, month ends, a day past a month's end,
\* a month that does not exist, no date, a text that is no ISO date
GenAnchors ==
    {20050103, 20150105, 20230131, 20240131, 20240229, 20240230, 20241231,
     20250101, 20250131, 20250301, 20250315, 20250331, 20251301, NoIso, NonIsoText}

\* windows <<start, end>>, as the request's texts
GenWindows ==
    { <<20250101, 20250131>>, <<20250101, 20251231>>, <<20250401, 20251231>>,
      <<20250301, 20250301>>, <<20250201, 20250228>>, <<20150101, 20351231>>,
      <<20250331, 20250430>> }

GenInputs ==
    [anchorRaw : GenAnchors, recurrenceText : GenRuleTexts, window : GenWindows,
     legacy : BOOLEAN]

\* the PreventativeMaintenance row of a generator input; a legacy row has its
\* rule in frequency and no scheduleAnchor
genPm(in) ==
    [recurrence     |-> IF in.legacy THEN NoText ELSE in.recurrenceText,
     frequency      |-> in.recurrenceText,
     scheduleAnchor |-> IF in.legacy THEN NoIso ELSE in.anchorRaw,
     nextDue        |-> in.anchorRaw]

\* the Asset row of a generator input
genAsset(in) == [calDue |-> in.anchorRaw, calFreq |-> in.recurrenceText]

genStartDate == parseIsoDate(gen.window[1])
genEndDate == parseIsoDate(gen.window[2])

InitGen ==
    /\ gen \in GenInputs
    /\ genOut = [pm |-> NotRun, cal |-> NotRun]
    /\ pms = << >> /\ assets = << >> /\ pmHistory = {} /\ calHistory = {}
    /\ nextId = [pm |-> 1, cal |-> 1]
    /\ locations = << >>
    /\ graph = NoGraph
    /\ today = 20250615
    /\ logged = 0
    /\ response = NoResponse
    /\ reqs = << >>

GeneratePmDueDates ==
    /\ genOut.pm = NotRun
    /\ genOut' = [genOut EXCEPT
                    !.pm = buildDueDatesInRangeRun(genPm(gen), genStartDate, genEndDate)]
    /\ UNCHANGED <<dbVars, graph, today, logged, response, reqs, gen>>

GenerateCalibrationDueDates ==
    /\ genOut.cal = NotRun
    /\ genOut' = [genOut EXCEPT
                    !.cal = buildCalibrationDueDatesInRangeRun(genAsset(gen),
                                                               genStartDate, genEndDate)]
    /\ UNCHANGED <<dbVars, graph, today, logged, response, reqs, gen>>

NextGen == GeneratePmDueDates \/ GenerateCalibrationDueDates

SpecGen == InitGen /\ [][NextGen]_vars

SeqToSet(s) == {s[i] : i \in 1..Len(s)}


(***************************************************************************)
(* Claims about the occurrence generator (SpecGen)                         *)
(***************************************************************************)
GenKinds == {"pm", "cal"}

\* the generator input has a window with start <= end, both parseable
genWindowValid ==
    genStartDate # NoDate /\ genEndDate # NoDate /\ genStartDate <= genEndDate

\* C1: every date a generator call returned lies in the window,
\* windowStart <= date <= windowEnd, also when the fast-forward phase used up
\* its 500 steps before reaching windowStart.
C1_ReturnedDatesInsideWindow ==
    \A k \in GenKinds :
        (genOut[k] # NotRun /\ genWindowValid) =>
            \A i \in 1..Len(genOut[k].dueDates) :
                /\ genStartDate <= parseIsoDate(genOut[k].dueDates[i])
                /\ parseIsoDate(genOut[k].dueDates[i]) <= genEndDate

\* C2: a generator call ends by its own loop guards, after at most 500 calls
\* of nextRecurringDate in the fast-forward loop and at most 700 in both loops,
\* and returns a list of at most 700 dates.
C2_GeneratorBounded ==
    \A k \in GenKinds :
        genOut[k] # NotRun =>
            /\ genOut[k].exited
            /\ genOut[k].fastForwardCalls <= 500
            /\ genOut[k].safety <= 700
            /\ Len(genOut[k].dueDates) <= 700

\* C2 witness: a call that used up the fast-forward cap and then the total cap
C2_BothCapsExhausted ==
    /\ genOut.pm # NotRun
    /\ genOut.pm.fastForwardCalls = 500
    /\ genOut.pm.safety = 700
    /\ Len(genOut.pm.dueDates) = 200

\* the anchor of the generator input, as a date
genAnchor == parseIsoDate(gen.anchorRaw)

\* what the claim expects of an obligation without a rule
oneTimeExpected ==
    IF genStartDate <= genAnchor /\ genAnchor <= genEndDate
    THEN <<toIsoDate(genAnchor)>>
    ELSE << >>

\* C10: with a parseable anchor and no recurrence rule, the PM
\* generator and the calibration generator both return [anchor] when the
\* anchor is in the window and [] otherwise.
C10_OneTimeBothKinds ==
    (genWindowValid /\ genAnchor # NoDate) =>
        /\ (genOut.pm # NotRun /\ asRecurrence(gen.recurrenceText) = NoText)
               => genOut.pm.dueDates = oneTimeExpected
        /\ (genOut.cal # NotRun /\ asFlexibleRecurrence(gen.recurrenceText) = NoText)
               => genOut.cal.dueDates = oneTimeExpected

\* C12: the list a generator call returns is strictly increasing in date: each
\* entry is later than the one before it, so no date appears twice, for every
\* rule and anchor.
C12_DueDatesStrictlyIncreasing ==
    \A k \in GenKinds :
        genOut[k] # NotRun =>
            \A i \in 1..(Len(genOut[k].dueDates) - 1) :
                /\ genOut[k].dueDates[i] < genOut[k].dueDates[i + 1]
                /\ parseIsoDate(genOut[k].dueDates[i])
                     < parseIsoDate(genOut[k].dueDates[i + 1])

\* C12 witness: a monthly obligation anchored on 31 January, whose dates are
\* clamped at the months' ends, had its twelve dates of the year returned by
\* both generators
C12_MonthlyFromMonthEnd ==
    /\ gen.anchorRaw = 20250131 /\ gen.recurrenceText = monthly
    /\ gen.window = <<20250101, 20251231>>
    /\ \A k \in GenKinds :
          /\ genOut[k] # NotRun
          /\ Len(genOut[k].dueDates) = 12
          /\ genOut[k].dueDates[1] = 20250131
          /\ genOut[k].dueDates[2] = 20250228

\* the rule a generator reads from the input: asRecurrence for a PM, the
\* lenient parser for a calibration
genRule(k) ==
    IF k = "pm" THEN asRecurrence(gen.recurrenceText)
    ELSE asFlexibleRecurrence(gen.recurrenceText)

\* the rule of the generator input counts months
genMonthRule(k) == genRule(k) \in recurrenceValues \ {weekly, biWeekly}

\* C27: along the list a generator returns for a month-based rule the day of
\* the month never grows and is never after the anchor's day of the month:
\* each date is computed from the date before it, so after a date was clamped
\* to the end of a short month the later dates keep the clamped day (anchor
\* 31 January 2025, monthly: 28 February, 28 March, 28 April).
C27_DayOfMonthNeverGrows ==
    \A k \in GenKinds :
        (genOut[k] # NotRun /\ genMonthRule(k)) =>
            /\ \A i \in 1..Len(genOut[k].dueDates) :
                  /\ IsoDay(genOut[k].dueDates[i])
                        <= IsoDay(toIsoDate(parseIsoDate(gen.anchorRaw)))
                  /\ i > 1 => IsoDay(genOut[k].dueDates[i])
                                <= IsoDay(genOut[k].dueDates[i - 1])
            /\ ( /\ gen.anchorRaw = 20250131 /\ genRule(k) = monthly
                 /\ gen.window = <<20250101, 20251231>> )
               => SubSeq(genOut[k].dueDates, 1, 4)
                    = <<20250131, 20250228, 20250328, 20250428>>

\* C27 witness: the monthly PM anchored on 31 January 2023 was clamped to 28
\* February 2023 on the way to the window, and its date of January 2025 is the
\* 28th
C27_ClampedDayKept ==
    /\ gen.anchorRaw = 20230131 /\ gen.recurrenceText = monthly
    /\ gen.window = <<20250101, 20250131>>
    /\ genOut.pm # NotRun
    /\ genOut.pm.dueDates = <<20250128>>

\* the first date of the schedule from date on that is not before target,
\* looked for over at most n steps of the rule
RECURSIVE stepsToward(_, _, _, _)
stepsToward(date, target, recurrence, n) ==
    IF n = 0 \/ date >= target THEN date
    ELSE IF n = 1 THEN nextRecurringDate(date, recurrence)
    ELSE stepsToward(stepsToward(date, target, recurrence, n \div 2), target,
                     recurrence, n - n \div 2)

\* target is a date of the schedule: the anchor itself, or with a rule a date
\* reached from the anchor in fewer steps than the cap on both loops
onSchedule(anchor, recurrence, target) ==
    IF recurrence = NoText THEN anchor = target
    ELSE stepsToward(anchor, target, recurrence, TotalCap - 1) = target

\* C13: for a window with start <= end, a date of the obligation's schedule
\* (the anchor, or a date reached from it by fewer than 700 steps of the rule)
\* that equals windowStart or equals windowEnd is in the list the generator
\* returns, for a PM and for a calibration.
C13_WindowBoundsInclusive ==
    (genWindowValid /\ genAnchor # NoDate) =>
        \A k \in GenKinds :
            genOut[k] # NotRun =>
                \A bound \in {genStartDate, genEndDate} :
                    onSchedule(genAnchor, genRule(k), bound)
                        => toIsoDate(bound) \in SeqToSet(genOut[k].dueDates)

(***************************************************************************)
(* The date helpers on their own: SpecDates                                *)
(***************************************************************************)
\* date texts of the form YYYY-MM-DD: every month field 00..13 and day field
\* 00..32 of a common year, a leap year and a century year that is no leap
\* year; and two texts not of the form, the empty text and another
DateTexts ==
    {y * 10000 + m * 100 + d : y \in {2023, 2024, 2100}, m \in 0..13, d \in 0..32}
    \cup {NoIso, NonIsoText}

\* the month counts addMonths is called with
MonthCounts == {0, 1, 2, 3, 6, 11, 12, 13, 24}

\* the result of a function that was not called
NotCalled == 0 - 2

InitDates ==
    /\ gen \in [text : DateTexts, months : MonthCounts]
    /\ genOut = [parsed |-> NotCalled, formatted |-> NotCalled, added |-> NotCalled]
    /\ pms = << >> /\ assets = << >> /\ pmHistory = {} /\ calHistory = {}
    /\ nextId = [pm |-> 1, cal |-> 1]
    /\ locations = << >>
    /\ graph = NoGraph
    /\ today = 20250615
    /\ logged = 0
    /\ response = NoResponse
    /\ reqs = << >>

\* parsed = parseIsoDate(text)
CallParseIsoDate ==
    /\ genOut.parsed = NotCalled
    /\ genOut' = [genOut EXCEPT !.parsed = parseIsoDate(gen.text)]
    /\ UNCHANGED <<dbVars, graph, today, logged, response, reqs, gen>>

\* toIsoDate(parsed), parsed a Date
CallToIsoDate ==
    /\ genOut.parsed \notin {NotCalled, NoDate}
    /\ genOut.formatted = NotCalled
    /\ genOut' = [genOut EXCEPT !.formatted = toIsoDate(genOut.parsed)]
    /\ UNCHANGED <<dbVars, graph, today, logged, response, reqs, gen>>

\* addMonths(parsed, months), parsed a Date
CallAddMonths ==
    /\ genOut.parsed \notin {NotCalled, NoDate}
    /\ genOut.added = NotCalled
    /\ genOut' = [genOut EXCEPT !.added = addMonths(genOut.parsed, gen.months)]
    /\ UNCHANGED <<dbVars, graph, today, logged, response, reqs, gen>>

NextDates == CallParseIsoDate \/ CallToIsoDate \/ CallAddMonths

SpecDates == InitDates /\ [][NextDates]_vars

(***************************************************************************)
(* Claims about the date helpers (SpecDates)                               *)
(***************************************************************************)
\* the month n months after the month of the date text s, counted from year 0
targetMonth(s, n) == IsoYear(s) * 12 + (IsoMonth(s) - 1) + n

\* the date text of day d of the month with that count, the last day of the
\* month when the month has no day d
sameDayOrLast(index, d) ==
    (index \div 12) * 10000 + ((index % 12) + 1) * 100
    + (IF d <= DaysInMonth(index \div 12, (index % 12) + 1) THEN d
       ELSE DaysInMonth(index \div 12, (index % 12) + 1))

\* the text s names a day of the calendar
isCalendarDate(s) ==
    /\ isoDateRegexTest(s)
    /\ IsoMonth(s) \in 1..12
    /\ IsoDay(s) \in 1..DaysInMonth(IsoYear(s), IsoMonth(s))

\* C11: addMonths(date, n), n >= 0, is the date n calendar months later with
\* the day of the month of date when the target month has that day and the last
\* day of the target month otherwise, never a day of the month after it; Jan 31
\* plus one month is Feb 29 in a leap year and Feb 28 otherwise, Mar 31 plus one
\* month is Apr 30.
C11_AddMonthsClamps ==
    genOut.added # NotCalled =>
        /\ toIsoDate(genOut.added)
              = sameDayOrLast(targetMonth(toIsoDate(genOut.parsed), gen.months),
                              IsoDay(toIsoDate(genOut.parsed)))
        /\ IsoYear(toIsoDate(genOut.added)) * 12 + IsoMonth(toIsoDate(genOut.added)) - 1
              = targetMonth(toIsoDate(genOut.parsed), gen.months)
        /\ (gen.text = 20240131 /\ gen.months = 1) => toIsoDate(genOut.added) = 20240229
        /\ (gen.text = 20230131 /\ gen.months = 1) => toIsoDate(genOut.added) = 20230228
        /\ (gen.text = 20240331 /\ gen.months = 1) => toIsoDate(genOut.added) = 20240430

\* C11 witness: addMonths was called on 31 January of a leap year with one
\* month and returned 29 February
C11_ClampedToLeapDay ==
    /\ gen.text = 20240131 /\ gen.months = 1
    /\ genOut.added # NotCalled
    /\ toIsoDate(genOut.added) = 20240229

\* C18: parseIsoDate returns null for every text that is not of the form
\* YYYY-MM-DD and for every text of the form that names no day of the calendar;
\* for a day of the calendar it returns that day, and toIsoDate of every
\* non-null result is the text that was parsed.
C18_ParseIsoDateStrict ==
    /\ genOut.parsed # NotCalled =>
          /\ ~isCalendarDate(gen.text) => genOut.parsed = NoDate
          /\ isCalendarDate(gen.text) =>
                genOut.parsed = DaysFromCivil(IsoYear(gen.text), IsoMonth(gen.text),
                                              IsoDay(gen.text))
    /\ genOut.formatted # NotCalled => genOut.formatted = gen.text


(***************************************************************************)
(* The recurrence rules on their own: SpecRules                            *)
(***************************************************************************)
\* String.prototype.toUpperCase, one character
toUpperCaseChar(c) ==
    IF \E i \in 1..Len(LowerChars) : LowerChars[i] = c
    THEN UpperChars[CHOOSE i \in 1..Len(LowerChars) : LowerChars[i] = c]
    ELSE c

\* the text with every hyphen written as the text by
RECURSIVE hyphensAs(_, _)
hyphensAs(value, by) ==
    IF value = << >> THEN << >>
    ELSE (IF Head(value) = "-" THEN by ELSE <<Head(value)>>) \o hyphensAs(Tail(value), by)

\* the ways a recurrence text is written differently: capitals, white space
\* around it, underscores, white space or several hyphens for a hyphen
RuleVariants == {"capitals", "padded", "underscores", "spaces", "hyphens", "mixed"}

variantOf(value, kind) ==
    IF kind = "capitals" THEN [i \in 1..Len(value) |-> toUpperCaseChar(value[i])]
    ELSE IF kind = "padded" THEN <<" ", "\t">> \o value \o <<"\n", " ">>
    ELSE IF kind = "underscores" THEN hyphensAs(value, <<"_">>)
    ELSE IF kind = "spaces" THEN hyphensAs(value, <<" ">>)
    ELSE IF kind = "hyphens" THEN hyphensAs(value, <<"-", "-", "-">>)
    ELSE hyphensAs(value, <<"_", " ", "-">>)

\* the recurrence texts the parsers are called with: the eight tokens, every
\* key of the alias table, no text, and texts that name no rule
RuleTexts ==
    recurrenceValues \cup {a[1] : a \in aliases}
    \cup {NoText, asNeededText, constructorText, <<"w","e","e","k">>}

\* the dates nextRecurringDate is called with
RuleDates == {20230131, 20230830, 20231231, 20240131, 20240229, 20250108}

\* a result: << >> before the call, <<value>> after it
InitRules ==
    /\ gen \in [text : RuleTexts, variant : RuleVariants, date : RuleDates]
    /\ genOut = [strict |-> << >>, lenient |-> << >>, lenientOfVariant |-> << >>,
                 strictOfVariant |-> << >>, next |-> << >>]
    /\ pms = << >> /\ assets = << >> /\ pmHistory = {} /\ calHistory = {}
    /\ nextId = [pm |-> 1, cal |-> 1]
    /\ locations = << >>
    /\ graph = NoGraph
    /\ today = 20250615
    /\ logged = 0
    /\ response = NoResponse
    /\ reqs = << >>

\* asRecurrence(text), asRecurrence(variant of text)
CallAsRecurrence ==
    /\ genOut.strict = << >>
    /\ genOut' = [genOut EXCEPT
                    !.strict = <<asRecurrence(gen.text)>>,
                    !.strictOfVariant = <<asRecurrence(variantOf(gen.text, gen.variant))>>]
    /\ UNCHANGED <<dbVars, graph, today, logged, response, reqs, gen>>

\* asFlexibleRecurrence(text), asFlexibleRecurrence(variant of text)
CallAsFlexibleRecurrence ==
    /\ genOut.lenient = << >>
    /\ genOut' = [genOut EXCEPT
                    !.lenient = <<asFlexibleRecurrence(gen.text)>>,
                    !.lenientOfVariant =
                        <<asFlexibleRecurrence(variantOf(gen.text, gen.variant))>>]
    /\ UNCHANGED <<dbVars, graph, today, logged, response, reqs, gen>>

\* nextRecurringDate(date, recurrence) with the rule a parser returned
CallNextRecurringDate ==
    /\ genOut.next = << >>
    /\ \E parsed \in {genOut.strict, genOut.lenient} :
          /\ parsed # << >> /\ parsed[1] # NoText
          /\ genOut' = [genOut EXCEPT
                          !.next = <<[recurrence |-> parsed[1],
                                      date |-> nextRecurringDate(parseIsoDate(gen.date),
                                                                 parsed[1])]>>]
    /\ UNCHANGED <<dbVars, graph, today, logged, response, reqs, gen>>

NextRules == CallAsRecurrence \/ CallAsFlexibleRecurrence \/ CallNextRecurringDate

SpecRules == InitRules /\ [][NextRules]_vars

(***************************************************************************)
(* Claims about the recurrence rules (SpecRules)                           *)
(***************************************************************************)
\* the months a month-based rule stands for
monthsOfRule(recurrence) ==
    IF recurrence = monthly THEN 1
    ELSE IF recurrence = biMonthly THEN 2
    ELSE IF recurrence = quarterly THEN 3
    ELSE IF recurrence = every6Months THEN 6
    ELSE IF recurrence = yearly THEN 12
    ELSE 24

\* C22: nextRecurringDate(date, rule) is date + 7 days for weekly, date + 14
\* days for bi-weekly and addMonths(date, k), k = 1, 2, 3, 6, 12, 24, for
\* monthly, bi-monthly, quarterly, every-6-months, yearly, bi-yearly (the day
\* of the month kept, or the last day of a shorter month); the result is later
\* than date for every rule.
C22_NextRecurringDateSteps ==
    (genOut.next # << >> /\ genOut.next[1].recurrence \in recurrenceValues) =>
        /\ genOut.next[1].date > parseIsoDate(gen.date)
        /\ genOut.next[1].recurrence = weekly =>
              genOut.next[1].date = parseIsoDate(gen.date) + 7
        /\ genOut.next[1].recurrence = biWeekly =>
              genOut.next[1].date = parseIsoDate(gen.date) + 14
        /\ genOut.next[1].recurrence \notin {weekly, biWeekly} =>
              /\ genOut.next[1].date
                    = addMonths(parseIsoDate(gen.date),
                                monthsOfRule(genOut.next[1].recurrence))
              /\ toIsoDate(genOut.next[1].date)
                    = sameDayOrLast(targetMonth(gen.date,
                                                monthsOfRule(genOut.next[1].recurrence)),
                                    IsoDay(gen.date))

\* C22 witness: the quarter after 30 August 2023 is 30 November 2023
C22_QuarterAfterAugust ==
    /\ gen.date = 20230830
    /\ genOut.next # << >>
    /\ genOut.next[1].recurrence = quarterly
    /\ toIsoDate(genOut.next[1].date) = 20231130

\* C30: what the strict parser accepts the lenient parser returns as the same
\* rule; the lenient parser returns null or one of the eight tokens; a text
\* written with capitals, white space around it, or underscores, white space
\* or several hyphens for a hyphen gives the same result as the text; a text
\* that names no rule gives null from both parsers.
C30_LenientExtendsStrict ==
    /\ (genOut.strict # << >> /\ genOut.lenient # << >> /\ genOut.strict[1] # NoText) =>
          genOut.lenient[1] = genOut.strict[1]
    /\ genOut.lenient # << >> =>
          /\ genOut.lenient[1] \in recurrenceValues \cup {NoText}
          /\ genOut.lenientOfVariant[1] \in recurrenceValues \cup {NoText}
          /\ genOut.lenientOfVariant[1] = genOut.lenient[1]
    /\ genOut.strict # << >> => genOut.strict[1] \in recurrenceValues \cup {NoText}
    /\ ( /\ genOut.strict # << >> /\ genOut.lenient # << >>
         /\ gen.text \notin recurrenceValues \cup {a[1] : a \in aliases} )
       => genOut.strict[1] = NoText /\ genOut.lenient[1] = NoText

(***************************************************************************)
(* Tables, rows and queries                                                *)
(***************************************************************************)
\* the database as one value, for the handlers' steps
Db == [pms |-> pms, assets |-> assets, pmHistory |-> pmHistory,
       calHistory |-> calHistory, nextId |-> nextId, locations |-> locations]

\* a null model instance
NoRow == [id |-> 0]

MaxOf(S) == CHOOSE x \in S : \A y \in S : y <= x

\* findOne({ where: { completedAt: { [Op.not]: null } },
\*           order: [['completedAt', 'DESC']] })?.completedAt ?? null
latestCompletedAt(rows) ==
    LET done == {h.completedAt : h \in {x \in rows : x.completedAt # NoIso}}
    IN  IF done = {} THEN NoIso ELSE MaxOf(done)

getLatestCompletedPmDateForPreventative(db, preventativeMaintenanceId) ==
    latestCompletedAt({h \in db.pmHistory :
                         h.preventativeMaintenanceId = preventativeMaintenanceId})

getLatestCompletedPmDateForAsset(db, assetId) ==
    latestCompletedAt({h \in db.pmHistory : h.assetId = assetId})

getLatestCompletedCalibrationDateForAsset(db, assetId) ==
    latestCompletedAt({h \in db.calHistory : h.assetId = assetId})

\* a mutant of pmHistoryKeyTaken: the table without its unique index
pmHistoryKeyTaken_NoIndex(db, preventativeMaintenanceId, dueDate) == FALSE

\* the unique index (preventativeMaintenanceId, dueDate) of pm_completion_history:
\* an insert of a taken key is refused
pmHistoryKeyTaken(db, preventativeMaintenanceId, dueDate) ==
    \E h \in db.pmHistory :
        h.preventativeMaintenanceId = preventativeMaintenanceId /\ h.dueDate = dueDate

\* the unique index (assetId, dueDate) of calibration_completion_history
calHistoryKeyTaken(db, assetId, dueDate) ==
    \E h \in db.calHistory : h.assetId = assetId /\ h.dueDate = dueDate

\* Model.save(): UPDATE ... SET <the attributes changed since the instance was
\* loaded> WHERE id; a row that is gone is left gone
saveChanged(table, id, instance, loaded) ==
    IF id \notin DOMAIN table THEN table
    ELSE [table EXCEPT ![id] =
            [f \in DOMAIN table[id] |->
                IF instance[f] # loaded[f] THEN instance[f] ELSE table[id][f]]]

\* a mutant of updateHistoryRow: the update is lost
updateHistoryRow_Lost(rows, id, values) == rows

\* instance.update(values) of a history row: UPDATE ... SET values WHERE id
updateHistoryRow(rows, id, values) ==
    {IF h.id = id
     THEN [f \in DOMAIN h |-> IF f \in DOMAIN values THEN values[f] ELSE h[f]]
     ELSE h : h \in rows}

(***************************************************************************)
(* POST /api/preventative-maintenances/:id/completion-history              *)
(* POST /api/assets/:id/calibration-history                                *)
(* A request is the handler's local variables; pc is the await it is at.   *)
(***************************************************************************)
newRequest(op, id, dueDate, completedAt, notes) ==
    [op |-> op, pc |-> "findByPk", id |-> id, dueDate |-> dueDate,
     completedAtSent |-> completedAt, completedAt |-> completedAt, notes |-> notes,
     instance |-> NoRow, loaded |-> NoRow, existing |-> NoRow,
     latest |-> NoIso, status |-> 0]

finish(db, r, status) == [db |-> db, req |-> [r EXCEPT !.pc = "done", !.status = status]]

\* a rejected promise nobody catches: the handler stops, no response is sent
reject(db, r) == [db |-> db, req |-> [r EXCEPT !.pc = "failed", !.status = 500]]

\* completionHistorySchema.safeParse(req.body)
completionHistorySchemaOk(r) ==
    /\ isoDateRegexTest(r.dueDate)
    /\ (r.completedAtSent = NoIso \/ isoDateRegexTest(r.completedAtSent))

\* from safeParse to the first query after the instance is loaded: 400, 404,
\* or the instance in memory and completedAt defaulted to today
loadStep(db, r, table, day) ==
    IF ~completionHistorySchemaOk(r) THEN finish(db, r, 400)
    ELSE IF r.id \notin DOMAIN table THEN finish(db, r, 404)
    ELSE IF parseIsoDate(r.dueDate) = NoDate THEN finish(db, r, 400)
    ELSE LET completedAt == IF r.completedAtSent = NoIso THEN day ELSE r.completedAtSent
         IN  IF parseIsoDate(completedAt) = NoDate THEN finish(db, r, 400)
             ELSE [db |-> db,
                   req |-> [r EXCEPT !.instance = table[r.id], !.loaded = table[r.id],
                                     !.completedAt = completedAt,
                                     !.pc = "findExisting"]]

\* a mutant of advanceGuard: the next-due is advanced whatever is stored
advanceGuard_Always(currentRaw, dueDateObj) == TRUE

\* a mutant of advanceGuard: the next-due advanced only when it is before the
\* due date
advanceGuard_OnlyBefore(currentRaw, dueDateObj) ==
    LET currentObj == IF currentRaw # NoIso THEN parseIsoDate(currentRaw) ELSE NoDate
    IN  currentObj = NoDate \/ currentObj < dueDateObj

\* if (!currentNextDueObj || currentNextDueObj <= dueDateObj), with
\* currentNextDueObj = current ? parseIsoDate(current) : null
advanceGuard(currentRaw, dueDateObj) ==
    LET currentObj == IF currentRaw # NoIso THEN parseIsoDate(currentRaw) ELSE NoDate
    IN  currentObj = NoDate \/ currentObj <= dueDateObj

\* the next-due after the guarded advance (index.ts 1304-1311, 1407-1414)
advancedNextDue(currentRaw, recurrence, dueDate) ==
    IF recurrence # NoText /\ advanceGuard(currentRaw, parseIsoDate(dueDate))
    THEN toIsoDate(nextRecurringDate(parseIsoDate(dueDate), recurrence))
    ELSE currentRaw

\* parsed.data.notes ?? existing.notes ?? null
updatedNotes(sent, existing) == IF sent # NoText THEN sent ELSE existing.notes

pmFindExisting(db, r) ==
    LET found == {h \in db.pmHistory :
                    h.preventativeMaintenanceId = r.id /\ h.dueDate = r.dueDate}
    IN  [db |-> db,
         req |-> [r EXCEPT !.existing = IF found = {} THEN NoRow
                                        ELSE CHOOSE h \in found : TRUE,
                           !.pc = "writeHistory"]]

\* the update or the create, then the statements up to the next await: the
\* guarded advance of pm.nextDue and pm.lastCompleted = completedAt, in memory
pmWriteHistory(db, r) ==
    LET pm == r.instance
        advanced == [pm EXCEPT
                       !.nextDue = advancedNextDue(pm.nextDue,
                                                   asRecurrence(pmRecurrenceText(pm)),
                                                   r.dueDate),
                       !.lastCompleted = r.completedAt]
        next == [r EXCEPT !.instance = advanced, !.pc = "readLatest"]
    IN  IF r.existing # NoRow
        THEN [db |-> [db EXCEPT !.pmHistory =
                        updateHistoryRow(db.pmHistory, r.existing.id,
                            [completedAt |-> r.completedAt,
                             notes |-> updatedNotes(r.notes, r.existing),
                             locationId |-> pm.locationId,
                             assetId |-> pm.assetId])],
              req |-> next]
        ELSE IF pmHistoryKeyTaken(db, r.id, r.dueDate) THEN reject(db, r)
        ELSE [db |-> [db EXCEPT
                        !.pmHistory = db.pmHistory \cup
                            {[id |-> db.nextId.pm, preventativeMaintenanceId |-> r.id,
                              locationId |-> pm.locationId, assetId |-> pm.assetId,
                              dueDate |-> r.dueDate, completedAt |-> r.completedAt,
                              notes |-> r.notes]},
                        !.nextId.pm = db.nextId.pm + 1],
              req |-> next]

\* a mutant of pmReadLatest: scheduleAnchor set to the next-due at every log
pmReadLatest_AlwaysAnchor(db, r) ==
    LET pm == r.instance
        withLast == [pm EXCEPT !.lastPm = getLatestCompletedPmDateForPreventative(db, r.id)]
        anchored == IF withLast.nextDue # NoIso
                    THEN [withLast EXCEPT !.scheduleAnchor = withLast.nextDue]
                    ELSE withLast
    IN  [db |-> db, req |-> [r EXCEPT !.instance = anchored, !.pc = "save"]]

\* pm.lastPm = await getLatestCompletedPmDateForPreventative(id), then
\* if (!pm.scheduleAnchor && pm.nextDue) pm.scheduleAnchor = pm.nextDue
pmReadLatest(db, r) ==
    LET pm == r.instance
        withLast == [pm EXCEPT !.lastPm = getLatestCompletedPmDateForPreventative(db, r.id)]
        anchored == IF withLast.scheduleAnchor = NoIso /\ withLast.nextDue # NoIso
                    THEN [withLast EXCEPT !.scheduleAnchor = withLast.nextDue]
                    ELSE withLast
    IN  [db |-> db, req |-> [r EXCEPT !.instance = anchored, !.pc = "save"]]

\* await pm.save()
pmSave(db, r) ==
    [db |-> [db EXCEPT !.pms = saveChanged(db.pms, r.id, r.instance, r.loaded)],
     req |-> [r EXCEPT !.loaded = r.instance,
                       !.pc = IF r.instance.assetId # 0 THEN "syncRead" ELSE "respond"]]

\* syncAssetLastPmFromHistory, its two reads
pmSyncRead(db, r) ==
    LET assetId == r.instance.assetId
    IN  IF assetId \notin DOMAIN db.assets
        THEN [db |-> db, req |-> [r EXCEPT !.pc = "respond"]]
        ELSE LET latest == getLatestCompletedPmDateForAsset(db, assetId)
                 current == db.assets[assetId].lastPm
                 next == IF latest # NoIso THEN latest ELSE current
             IN  [db |-> db,
                  req |-> [r EXCEPT !.latest = next,
                                    !.pc = IF current # next THEN "syncSave"
                                           ELSE "respond"]]

\* syncAssetLastPmFromHistory, its asset.save()
pmSyncSave(db, r) ==
    LET assetId == r.instance.assetId
    IN  [db |-> IF assetId \in DOMAIN db.assets
                THEN [db EXCEPT !.assets[assetId].lastPm = r.latest]
                ELSE db,
         req |-> [r EXCEPT !.pc = "respond"]]

\* one step of the PM handler: from one await to the next
pmLogStep(db, r, day) ==
    IF r.pc = "findByPk" THEN loadStep(db, r, db.pms, day)
    ELSE IF r.pc = "findExisting" THEN pmFindExisting(db, r)
    ELSE IF r.pc = "writeHistory" THEN pmWriteHistory(db, r)
    ELSE IF r.pc = "readLatest" THEN pmReadLatest(db, r)
    ELSE IF r.pc = "save" THEN pmSave(db, r)
    ELSE IF r.pc = "syncRead" THEN pmSyncRead(db, r)
    ELSE IF r.pc = "syncSave" THEN pmSyncSave(db, r)
    ELSE IF r.pc = "respond" THEN finish(db, r, 201)
    ELSE [db |-> db, req |-> r]


calFindExisting(db, r) ==
    LET found == {h \in db.calHistory : h.assetId = r.id /\ h.dueDate = r.dueDate}
    IN  [db |-> db,
         req |-> [r EXCEPT !.existing = IF found = {} THEN NoRow
                                        ELSE CHOOSE h \in found : TRUE,
                           !.pc = "writeHistory"]]

\* the update or the create, then the guarded advance of asset.calDue in memory
calWriteHistory(db, r) ==
    LET asset == r.instance
        advanced == [asset EXCEPT
                       !.calDue = advancedNextDue(asset.calDue,
                                                  asFlexibleRecurrence(asset.calFreq),
                                                  r.dueDate)]
        next == [r EXCEPT !.instance = advanced, !.pc = "save"]
    IN  IF r.existing # NoRow
        THEN [db |-> [db EXCEPT !.calHistory =
                        updateHistoryRow(db.calHistory, r.existing.id,
                            [completedAt |-> r.completedAt,
                             notes |-> updatedNotes(r.notes, r.existing),
                             locationId |-> asset.locationId])],
              req |-> next]
        ELSE IF calHistoryKeyTaken(db, r.id, r.dueDate) THEN reject(db, r)
        ELSE [db |-> [db EXCEPT
                        !.calHistory = db.calHistory \cup
                            {[id |-> db.nextId.cal, assetId |-> r.id,
                              locationId |-> asset.locationId,
                              dueDate |-> r.dueDate, completedAt |-> r.completedAt,
                              notes |-> r.notes]},
                        !.nextId.cal = db.nextId.cal + 1],
              req |-> next]

\* await asset.save()
calSave(db, r) ==
    [db |-> [db EXCEPT !.assets = saveChanged(db.assets, r.id, r.instance, r.loaded)],
     req |-> [r EXCEPT !.loaded = r.instance, !.pc = "syncRead"]]

\* syncAssetLastCalibrationFromHistory, its two reads
calSyncRead(db, r) ==
    IF r.id \notin DOMAIN db.assets
    THEN [db |-> db, req |-> [r EXCEPT !.pc = "refresh"]]
    ELSE LET latest == getLatestCompletedCalibrationDateForAsset(db, r.id)
             current == db.assets[r.id].lastCalibration
             next == IF latest # NoIso THEN latest ELSE current
         IN  [db |-> db,
              req |-> [r EXCEPT !.latest = next,
                                !.pc = IF current # next THEN "syncSave" ELSE "refresh"]]

\* syncAssetLastCalibrationFromHistory, its asset.save()
calSyncSave(db, r) ==
    [db |-> IF r.id \in DOMAIN db.assets
            THEN [db EXCEPT !.assets[r.id].lastCalibration = r.latest]
            ELSE db,
     req |-> [r EXCEPT !.pc = "refresh"]]

\* refreshedAsset = (await Asset.findByPk(id)) ?? asset
calRefresh(db, r) ==
    [db |-> db,
     req |-> [r EXCEPT !.instance = IF r.id \in DOMAIN db.assets THEN db.assets[r.id]
                                    ELSE r.instance,
                       !.pc = "respond"]]

\* one step of the calibration handler: from one await to the next
calLogStep(db, r, day) ==
    IF r.pc = "findByPk" THEN loadStep(db, r, db.assets, day)
    ELSE IF r.pc = "findExisting" THEN calFindExisting(db, r)
    ELSE IF r.pc = "writeHistory" THEN calWriteHistory(db, r)
    ELSE IF r.pc = "save" THEN calSave(db, r)
    ELSE IF r.pc = "syncRead" THEN calSyncRead(db, r)
    ELSE IF r.pc = "syncSave" THEN calSyncSave(db, r)
    ELSE IF r.pc = "refresh" THEN calRefresh(db, r)
    ELSE IF r.pc = "respond" THEN finish(db, r, 201)
    ELSE [db |-> db, req |-> r]

logStep(db, r, day) ==
    IF r.op = "pmLog" THEN pmLogStep(db, r, day) ELSE calLogStep(db, r, day)

running(r) == r.pc \notin {"idle", "done", "failed"}

\* a handler run from its first statement to its end with nothing in between
RECURSIVE runFrom(_, _)
runFrom(out, day) ==
    IF ~running(out.req) THEN out
    ELSE runFrom(logStep(out.db, out.req, day), day)

runToEnd(db, r, day) == runFrom([db |-> db, req |-> r], day)


(***************************************************************************)
(* Completion logging, one request at a time: Spec                         *)
(***************************************************************************)
MaxLogs == 2

noteA == <<"o","k">>

\* two of the defaultLocations the server seeds
enterprise == <<"E","n","t","e","r","p","r","i","s","e">>
bristol == <<"B","r","i","s","t","o","l">>

\* the locations table of the runs with one location
oneLocation == (1 :> [name |-> enterprise])

pmRow(recurrence, frequency, scheduleAnchor, nextDue, last) ==
    [locationId |-> 1, assetId |-> 1, recurrence |-> recurrence,
     frequency |-> frequency, scheduleAnchor |-> scheduleAnchor, nextDue |-> nextDue,
     lastCompleted |-> last, lastPm |-> last]

assetRow(calFreq, calDue, last) ==
    [locationId |-> 1, aid |-> NoText, calFreq |-> calFreq, calDue |-> calDue,
     lastPm |-> last, lastCalibration |-> last]

\* the stored obligations the runs start from: a PM as POST creates it
\* (recurrence = frequency, scheduleAnchor = nextDue), rows from before the
\* recurrence and scheduleAnchor columns, a next-due that is no ISO date; assets
\* with a free-text frequency, a one-time calibration, no calibration date
InitialRows ==
    { [pm    |-> pmRow(weekly, weekly, 20250101, 20250101, NoIso),
       asset |-> assetRow(everyWeekText, 20250101, NoIso)],
      [pm    |-> pmRow(monthly, monthly, 20250131, 20250131, 20241201),
       asset |-> assetRow(annualText, 20240229, 20241201)],
      [pm    |-> pmRow(NoText, monthly, NoIso, 20250108, NoIso),
       asset |-> assetRow(NoText, 20250108, NoIso)],
      [pm    |-> pmRow(NoText, asNeededText, NoIso, NoIso, NoIso),
       asset |-> assetRow(weekly, NoIso, NoIso)],
      [pm    |-> pmRow(weekly, weekly, NonIsoText, NonIsoText, NoIso),
       asset |-> assetRow(biWeekly, NonIsoText, NoIso)] }

\* what the completion-logging requests carry: every combination of three due
\* dates, completedAt omitted or given and notes omitted or given, for the
\* stored obligation; one request for an id that does not exist; one with a
\* due date that is no calendar date
LogRequests ==
    [id : {1}, dueDate : {20250101, 20250108, 20250115},
     completedAt : {NoIso, 20250105, 20250108}, notes : {NoText, noteA}]
    \cup {[id |-> 2, dueDate |-> 20250108, completedAt |-> NoIso, notes |-> NoText],
          [id |-> 1, dueDate |-> 20251301, completedAt |-> NoIso, notes |-> NoText]}

Idle == [op |-> "none", pc |-> "idle", status |-> 0]

InitDb ==
    /\ \E rows \in InitialRows :
          /\ pms = (1 :> rows.pm)
          /\ assets = (1 :> rows.asset)
    /\ pmHistory = {}
    /\ calHistory = {}
    /\ nextId = [pm |-> 1, cal |-> 1]
    /\ locations = oneLocation
    /\ graph = NoGraph
    /\ today = 20250110

Init ==
    /\ InitDb
    /\ logged = 0
    /\ response = NoResponse
    /\ reqs = << >>
    /\ gen = << >>
    /\ genOut = << >>

\* the database and the response a finished handler run leaves
served(out) ==
    /\ pms' = out.db.pms
    /\ assets' = out.db.assets
    /\ pmHistory' = out.db.pmHistory
    /\ calHistory' = out.db.calHistory
    /\ nextId' = out.db.nextId
    /\ locations' = out.db.locations
    /\ response' = [op |-> out.req.op, id |-> out.req.id, dueDate |-> out.req.dueDate,
                    completedAtSent |-> out.req.completedAtSent,
                    completedAt |-> out.req.completedAt, notes |-> out.req.notes,
                    status |-> out.req.status]

\* a whole request, served with no other request in between
serve(op, id, dueDate, completedAt, notes) ==
    /\ logged < MaxLogs
    /\ logged' = logged + 1
    /\ served(runToEnd(Db, newRequest(op, id, dueDate, completedAt, notes), today))
    /\ UNCHANGED <<graph, today, reqs, gen, genOut>>

LogPmCompletion ==
    \E q \in LogRequests : serve("pmLog", q.id, q.dueDate, q.completedAt, q.notes)

LogCalibrationCompletion ==
    \E q \in LogRequests : serve("calLog", q.id, q.dueDate, q.completedAt, q.notes)

Next == LogPmCompletion \/ LogCalibrationCompletion

Spec == Init /\ [][Next]_vars

(***************************************************************************)
(* Completion logging, requests interleaved at their awaits: SpecConc      *)
(***************************************************************************)
Requests == {1, 2}

InitConc ==
    /\ InitDb
    /\ logged = 0
    /\ response = NoResponse
    /\ reqs = [r \in Requests |-> Idle]
    /\ gen = << >>
    /\ genOut = << >>

\* a request arrives
Receive(op) ==
    \E r \in Requests, dueDate \in {20250101, 20250108}, completedAt \in {NoIso, 20250105} :
        /\ reqs[r] = Idle
        /\ reqs' = [reqs EXCEPT ![r] = newRequest(op, 1, dueDate, completedAt, NoText)]
        /\ UNCHANGED <<dbVars, graph, today, logged, response, gen, genOut>>

ReceivePmLog == Receive("pmLog")

ReceiveCalibrationLog == Receive("calLog")

\* the database and the request a handler step leaves
stepped(r, out) ==
    /\ reqs' = [reqs EXCEPT ![r] = out.req]
    /\ pms' = out.db.pms
    /\ assets' = out.db.assets
    /\ pmHistory' = out.db.pmHistory
    /\ calHistory' = out.db.calHistory
    /\ nextId' = out.db.nextId
    /\ locations' = out.db.locations

\* a request in flight runs up to its next await
Step(op) ==
    \E r \in Requests :
        /\ reqs[r].op = op
        /\ running(reqs[r])
        /\ stepped(r, logStep(Db, reqs[r], today))
        /\ UNCHANGED <<graph, today, logged, response, gen, genOut>>

PmLogStep == Step("pmLog")

CalibrationLogStep == Step("calLog")

NextConc == ReceivePmLog \/ ReceiveCalibrationLog \/ PmLogStep \/ CalibrationLogStep

SpecConc == InitConc /\ [][NextConc]_vars


(***************************************************************************)
(* Claims about completion logging (Spec, SpecConc)                        *)
(***************************************************************************)
\* the stored next-due next, read as a date, is not earlier than the stored
\* next-due now
notEarlier(now, next) ==
    parseIsoDate(now) # NoDate =>
        (parseIsoDate(next) # NoDate /\ parseIsoDate(next) >= parseIsoDate(now))

\* C3: with the requests served one at a time, a completion log never lowers
\* the stored next-due (pm.nextDue, asset.calDue), and a log whose dueDate is
\* earlier than the stored next-due leaves it unchanged.
C3_NextDueNeverDecreases ==
    [][ /\ \A id \in DOMAIN pms :
              /\ notEarlier(pms[id].nextDue, pms'[id].nextDue)
              /\ (response'.op = "pmLog" /\ response'.id = id
                  /\ parseIsoDate(pms[id].nextDue) # NoDate
                  /\ parseIsoDate(response'.dueDate) < parseIsoDate(pms[id].nextDue))
                    => pms'[id].nextDue = pms[id].nextDue
        /\ \A id \in DOMAIN assets :
              /\ notEarlier(assets[id].calDue, assets'[id].calDue)
              /\ (response'.op = "calLog" /\ response'.id = id
                  /\ parseIsoDate(assets[id].calDue) # NoDate
                  /\ parseIsoDate(response'.dueDate) < parseIsoDate(assets[id].calDue))
                    => assets'[id].calDue = assets[id].calDue ]_vars

\* C3 witness: a completion was logged for a due date more than one period
\* before the stored next-due of a weekly PM, which an earlier log had advanced
C3_EarlierDueDateLogged ==
    /\ logged = 2
    /\ response.op = "pmLog" /\ response.status = 201
    /\ pms[1].recurrence = weekly
    /\ pms[1].scheduleAnchor = 20250101
    /\ pms[1].nextDue = 20250122
    /\ response.dueDate = 20250101

\* the stored next-due before and after a log for dueDate, as the claim has it
advancedWhenDue(before, after, rule, dueDate) ==
    /\ ( /\ rule \in recurrenceValues
         /\ \/ before = NoIso
            \/ /\ parseIsoDate(before) # NoDate
               /\ parseIsoDate(before) <= parseIsoDate(dueDate) )
       => after = toIsoDate(nextRecurringDate(parseIsoDate(dueDate), rule))
    /\ ( \/ rule = NoText
         \/ /\ before # NoIso
            /\ parseIsoDate(before) # NoDate
            /\ parseIsoDate(before) > parseIsoDate(dueDate) )
       => after = before

AnchorWindows == {<<20250101, 20250131>>, <<20250108, 20250331>>}

\* C25: a scheduleAnchor that is set is not changed by a completion log, and
\* the due dates generated for the PM and a window are the same before and
\* after the log; a PM without scheduleAnchor gets one from a log of its own
\* only, the next-due stored at the end of that log, and from then on keeps it.
C25_ScheduleAnchorFixed ==
    [][ \A id \in DOMAIN pms :
          /\ pms[id].scheduleAnchor # NoIso =>
                /\ pms'[id].scheduleAnchor = pms[id].scheduleAnchor
                /\ \A w \in AnchorWindows :
                      buildDueDatesInRange(pms'[id], parseIsoDate(w[1]),
                                           parseIsoDate(w[2]))
                        = buildDueDatesInRange(pms[id], parseIsoDate(w[1]),
                                               parseIsoDate(w[2]))
          /\ pms[id].scheduleAnchor = NoIso =>
                IF response'.op = "pmLog" /\ response'.id = id /\ response'.status = 201
                THEN pms'[id].scheduleAnchor = pms'[id].nextDue
                ELSE pms'[id].scheduleAnchor = NoIso ]_vars

\* C25 witness: two completions were logged for the weekly PM created with
\* next-due 1 January; the next-due moved on to 15 January and the
\* scheduleAnchor is still 1 January
C25_AnchorKeptAfterTwoLogs ==
    /\ logged = 2
    /\ response.op = "pmLog" /\ response.status = 201
    /\ pms[1].recurrence = weekly
    /\ pms[1].scheduleAnchor = 20250101
    /\ pms[1].nextDue = 20250115

\* the initial database of a stored obligation pair
initialDb(rows) ==
    [pms |-> (1 :> rows.pm), assets |-> (1 :> rows.asset), pmHistory |-> {},
     calHistory |-> {}, nextId |-> [pm |-> 1, cal |-> 1], locations |-> oneLocation]

\* the database after request a and then request b, each served whole
serialDb(db, a, b, day) ==
    runToEnd(runToEnd(db, newRequest(a.op, a.id, a.dueDate, a.completedAtSent, a.notes),
                      day).db,
             newRequest(b.op, b.id, b.dueDate, b.completedAtSent, b.notes), day).db

\* the next-dues of db are those of a serial execution of the two requests
serialNextDue(nextPms, nextAssets, a, b, day) ==
    \E rows \in InitialRows :
        \E db \in {serialDb(initialDb(rows), a, b, day),
                   serialDb(initialDb(rows), b, a, day)} :
            /\ db.pms[1].recurrence = nextPms[1].recurrence
            /\ db.pms[1].frequency = nextPms[1].frequency
            /\ db.assets[1].calFreq = nextAssets[1].calFreq
            /\ db.pms[1].nextDue = nextPms[1].nextDue
            /\ db.assets[1].calDue = nextAssets[1].calDue

\* C4: with two requests interleaved at their awaits, the stored next-due is
\* never lowered below a value already stored, and once both requests are done
\* it is the next-due of one of the two serial orders.
C4_ConcurrentAdvanceAtomic ==
    [][ /\ \A id \in DOMAIN pms : notEarlier(pms[id].nextDue, pms'[id].nextDue)
        /\ \A id \in DOMAIN assets : notEarlier(assets[id].calDue, assets'[id].calDue)
        /\ (\A r \in Requests : reqs'[r].pc = "done" /\ reqs'[r].status = 201)
              => serialNextDue(pms', assets', reqs'[1], reqs'[2], today) ]_vars

\* the rows of a history table with one key
pmRecords(rows, id, dueDate) ==
    {h \in rows : h.preventativeMaintenanceId = id /\ h.dueDate = dueDate}

calRecords(rows, id, dueDate) ==
    {h \in rows : h.assetId = id /\ h.dueDate = dueDate}

\* what a successful log leaves of the table `before`: one record for the
\* logged key, holding the request's completedAt (today when none was sent), the
\* record that was there kept under its id, every other record untouched
upserted(sameBefore, sameAfter, othersBefore, othersAfter) ==
    /\ Cardinality(sameAfter) = 1
    /\ \A h \in sameAfter :
          /\ h.completedAt = (IF response'.completedAtSent = NoIso THEN today
                              ELSE response'.completedAtSent)
          /\ \A g \in sameBefore : g.id = h.id
    /\ othersAfter = othersBefore

\* C5: with the requests served one at a time, the ledger holds at most one
\* record per (obligation, dueDate); a successful log leaves exactly one record
\* for its key, with the completedAt of that log, updating the record in place
\* when there was one, and touches no other record.
C5_UpsertOneRecordPerKey ==
    [][ /\ \A h \in pmHistory' :
              pmRecords(pmHistory', h.preventativeMaintenanceId, h.dueDate) = {h}
        /\ \A h \in calHistory' : calRecords(calHistory', h.assetId, h.dueDate) = {h}
        /\ (response'.op = "pmLog" /\ response'.status = 201) =>
              /\ upserted(pmRecords(pmHistory, response'.id, response'.dueDate),
                          pmRecords(pmHistory', response'.id, response'.dueDate),
                          pmHistory \ pmRecords(pmHistory, response'.id, response'.dueDate),
                          pmHistory' \ pmRecords(pmHistory', response'.id,
                                                 response'.dueDate))
              /\ calHistory' = calHistory
        /\ (response'.op = "calLog" /\ response'.status = 201) =>
              /\ upserted(calRecords(calHistory, response'.id, response'.dueDate),
                          calRecords(calHistory', response'.id, response'.dueDate),
                          calHistory \ calRecords(calHistory, response'.id,
                                                  response'.dueDate),
                          calHistory' \ calRecords(calHistory', response'.id,
                                                   response'.dueDate))
              /\ pmHistory' = pmHistory ]_vars

\* C5 witness: the second log for a key found the record of the first (it
\* still has the first log's notes) and left it the only record, with the
\* second log's completedAt
C5_SecondLogForSameKey ==
    /\ logged = 2
    /\ response.op = "pmLog" /\ response.status = 201
    /\ response.notes = NoText /\ response.completedAt = 20250105
    /\ Cardinality(pmHistory) = 1
    /\ \A h \in pmHistory :
          h.dueDate = response.dueDate /\ h.notes = noteA /\ h.completedAt = 20250105
    /\ pms[1].lastCompleted = 20250105 /\ pms[1].lastPm = 20250105

\* C6: under every interleaving of two log requests, the ledger never holds two
\* records for one (obligation, dueDate).
C6_NoDuplicateUnderRace ==
    /\ \A h \in pmHistory :
          pmRecords(pmHistory, h.preventativeMaintenanceId, h.dueDate) = {h}
    /\ \A h \in calHistory : calRecords(calHistory, h.assetId, h.dueDate) = {h}

\* C6 witness: both requests looked the same key up before either wrote, both
\* are past their write, and the ledger has one record for the key
C6_BothLookedUpBeforeEitherWrote ==
    /\ reqs[1].op = "pmLog" /\ reqs[2].op = "pmLog"
    /\ reqs[1].dueDate = reqs[2].dueDate
    /\ \A r \in Requests :
          /\ reqs[r].pc \in {"readLatest", "save", "syncRead", "syncSave", "respond",
                             "done", "failed"}
          /\ reqs[r].existing = NoRow
    /\ Cardinality(pmRecords(pmHistory, 1, reqs[1].dueDate)) = 1

\* C16: when a completion is logged for a key that already has a record, the
\* record's notes become the notes of the new call, as its completedAt becomes
\* the new call's, also when the new call carries no notes.
C16_RelogReplacesNotes ==
    [][ /\ (response'.op = "pmLog" /\ response'.status = 201
             /\ pmRecords(pmHistory, response'.id, response'.dueDate) # {})
              => \A h \in pmRecords(pmHistory', response'.id, response'.dueDate) :
                    /\ h.completedAt = response'.completedAt
                    /\ h.notes = response'.notes
        /\ (response'.op = "calLog" /\ response'.status = 201
             /\ calRecords(calHistory, response'.id, response'.dueDate) # {})
              => \A h \in calRecords(calHistory', response'.id, response'.dueDate) :
                    /\ h.completedAt = response'.completedAt
                    /\ h.notes = response'.notes ]_vars

\* the two requests in flight are logs of the same kind for the same due date
\* of the same obligation
sameKeyRequests ==
    /\ reqs[1].op \in {"pmLog", "calLog"}
    /\ reqs[1].op = reqs[2].op
    /\ reqs[1].id = reqs[2].id
    /\ reqs[1].dueDate = reqs[2].dueDate

\* C17: when two completion-logging requests for the same (obligation, dueDate)
\* run concurrently, neither ends in an error: no request stops at a rejected
\* write, and each one that ends, ends with the success response.
C17_SameKeyRaceBothSucceed ==
    sameKeyRequests =>
        \A r \in Requests :
            /\ reqs[r].pc # "failed"
            /\ reqs[r].pc = "done" => reqs[r].status = 201

\* the latest completedAt on record equals the stored value, when there is a
\* completed record at all
isLatest(rows, stored) ==
    latestCompletedAt(rows) # NoIso => stored = latestCompletedAt(rows)

\* C7: the stored 'last completed' values (pm.lastCompleted and pm.lastPm of a
\* PM, lastPm and lastCalibration of an asset) equal the maximum completedAt
\* over the obligation's completion records.
C7_LastCompletedIsMaximum ==
    /\ \A id \in DOMAIN pms :
          /\ isLatest({h \in pmHistory : h.preventativeMaintenanceId = id},
                      pms[id].lastCompleted)
          /\ isLatest({h \in pmHistory : h.preventativeMaintenanceId = id},
                      pms[id].lastPm)
    /\ \A id \in DOMAIN assets :
          /\ isLatest({h \in pmHistory : h.assetId = id}, assets[id].lastPm)
          /\ isLatest({h \in calHistory : h.assetId = id}, assets[id].lastCalibration)


(***************************************************************************)
(* GET /api/reports/pm-compliance                                          *)
(***************************************************************************)
\* the ids of a table, ascending: order: [['id', 'ASC']]
RECURSIVE ascending(_)
ascending(ids) ==
    IF ids = {} THEN << >>
    ELSE LET first == CHOOSE x \in ids : \A y \in ids : x <= y
         IN  <<first>> \o ascending(ids \ {first})

\* the window a request without start or end gets: the month of today
defaultStart(day) == toIsoDate(DaysFromCivil(IsoYear(day), IsoMonth(day), 1))

defaultEnd(day) ==
    toIsoDate(DaysFromCivil(IsoYear(day), IsoMonth(day),
                            DaysInMonth(IsoYear(day), IsoMonth(day))))

\* isoDateSchema.optional() on a query parameter
optionalIsoDateOk(value) == value = NoIso \/ isoDateRegexTest(value)

\* where: { dueDate: { [Op.gte]: start, [Op.lte]: end } }, a comparison of texts
historyInRange(rows, start, end) ==
    {h \in rows : h.dueDate >= start /\ h.dueDate <= end}

\* pmHistoryByKey[`${id}|${dueDate}`] over the rows fetched for one obligation
historyEntry(entries, dueDate) ==
    IF \E h \in entries : h.dueDate = dueDate
    THEN CHOOSE h \in entries : h.dueDate = dueDate
    ELSE NoRow

\* a mutant of rowStatus: a completion on the due date counted as late
rowStatus_LateOnDueDate(dueDate, completedAt, day) ==
    IF completedAt # NoIso
    THEN IF completedAt >= dueDate THEN "completed-late" ELSE "completed-on-time"
    ELSE IF dueDate < day THEN "missed" ELSE "scheduled"

\* const completed = Boolean(completedAt); const late = completedAt > dueDate;
\* const status = completed ? (late ? ... : ...) : dueDate < today ? ... : ...
rowStatus(dueDate, completedAt, day) ==
    IF completedAt # NoIso
    THEN IF completedAt > dueDate THEN "completed-late" ELSE "completed-on-time"
    ELSE IF dueDate < day THEN "missed" ELSE "scheduled"

entryCompletedAt(entry) == IF entry = NoRow THEN NoIso ELSE entry.completedAt

entryNotes(entry) == IF entry = NoRow THEN NoText ELSE entry.notes

digitChars == <<"0","1","2","3","4","5","6","7","8","9">>

\* `${id}` of an id below 100
numberText(n) ==
    IF n < 10 THEN <<digitChars[n + 1]>>
    ELSE <<digitChars[(n \div 10) + 1], digitChars[(n % 10) + 1]>>

\* locationNameById[locationId] ?? `Location #${locationId}`
locationNameFor(db, locationId) ==
    IF locationId \in DOMAIN db.locations THEN db.locations[locationId].name
    ELSE <<"L","o","c","a","t","i","o","n"," ","#">> \o numberText(locationId)

\* `Asset #${id}`
assetNumberLabel(id) == <<"A","s","s","e","t"," ","#">> \o numberText(id)

\* the label of an asset: its aid, manufacturerModel and equipmentDescription,
\* trimmed, the empty ones dropped, joined; the stored assets have no
\* manufacturerModel and no equipmentDescription, so it is the trimmed aid, and
\* `Asset #${id}` when that is empty
assetLabelFor(db, id) ==
    IF trim(db.assets[id].aid) # << >> THEN trim(db.assets[id].aid)
    ELSE assetNumberLabel(id)

\* pm.assetId ? assetLabelById[pm.assetId] ?? `Asset #${pm.assetId}`
\*            : 'Unassigned Asset'
pmAssetLabel(db, assetId) ==
    IF assetId = 0
    THEN <<"U","n","a","s","s","i","g","n","e","d"," ","A","s","s","e","t">>
    ELSE IF assetId \in DOMAIN db.assets THEN assetLabelFor(db, assetId)
    ELSE assetNumberLabel(assetId)

reportRow(sourceType, sourceId, locationId, assetId, dueDate, entry, day) ==
    [sourceType |-> sourceType, sourceId |-> sourceId, dueDate |-> dueDate,
     completedAt |-> entryCompletedAt(entry),
     status |-> rowStatus(dueDate, entryCompletedAt(entry), day),
     happened |-> entryCompletedAt(entry) # NoIso,
     locationId |-> locationId, assetId |-> assetId, notes |-> entryNotes(entry)]

\* one row with the names the report shows for it
namedRow(row, locationName, assetLabel) ==
    [f \in DOMAIN row \cup {"locationName", "assetLabel"} |->
        IF f = "locationName" THEN locationName
        ELSE IF f = "assetLabel" THEN assetLabel
        ELSE row[f]]

\* dueDates.map((dueDate) => ...) of one obligation
rowsOf(sourceType, sourceId, locationId, assetId, dueDates, entries, day) ==
    [i \in 1..Len(dueDates) |->
        reportRow(sourceType, sourceId, locationId, assetId, dueDates[i],
                  historyEntry(entries, dueDates[i]), day)]

\* the rows of one obligation, named
namedRowsOf(rows, locationName, assetLabel) ==
    [i \in 1..Len(rows) |-> namedRow(rows[i], locationName, assetLabel)]

\* pms.flatMap((pm) => ...)
RECURSIVE pmRows(_, _, _, _, _, _)
pmRows(db, ids, fetched, startDate, endDate, day) ==
    IF ids = << >> THEN << >>
    ELSE namedRowsOf(
             rowsOf("pm", Head(ids), db.pms[Head(ids)].locationId,
                    db.pms[Head(ids)].assetId,
                    buildDueDatesInRange(db.pms[Head(ids)], startDate, endDate),
                    {h \in fetched : h.preventativeMaintenanceId = Head(ids)}, day),
             locationNameFor(db, db.pms[Head(ids)].locationId),
             pmAssetLabel(db, db.pms[Head(ids)].assetId))
         \o pmRows(db, Tail(ids), fetched, startDate, endDate, day)

\* calibrationAssets.flatMap((asset) => ...)
RECURSIVE calibrationRows(_, _, _, _, _, _)
calibrationRows(db, ids, fetched, startDate, endDate, day) ==
    IF ids = << >> THEN << >>
    ELSE namedRowsOf(
             rowsOf("calibration", Head(ids), db.assets[Head(ids)].locationId, Head(ids),
                    buildCalibrationDueDatesInRange(db.assets[Head(ids)], startDate,
                                                    endDate),
                    {h \in fetched : h.assetId = Head(ids)}, day),
             locationNameFor(db, db.assets[Head(ids)].locationId),
             assetLabelFor(db, Head(ids)))
         \o calibrationRows(db, Tail(ids), fetched, startDate, endDate, day)

\* assets.filter((asset) => Boolean(asset.calDue?.trim()))
calibrationAssetIds(db) == {id \in DOMAIN db.assets : db.assets[id].calDue # NoIso}

\* the characters of the names, in the order of the collation of
\* String.prototype.localeCompare (Intl.Collator of the default locale): white
\* space, punctuation, digits, then the letters, a letter and its capital at
\* the same place
collationOrder ==
    <<" ", "-", "#">> \o digitChars \o LowerChars

\* the first-level weight of a character: its place in the collation order
collationWeight ==
    [c \in SeqToSet(collationOrder) \cup SeqToSet(UpperChars) |->
        CHOOSE i \in 1..Len(collationOrder) : collationOrder[i] = toLowerCaseChar(c)]

\* the case-level weight of a character: a small letter before its capital
caseWeight ==
    [c \in SeqToSet(collationOrder) \cup SeqToSet(UpperChars) |->
        IF c \in SeqToSet(UpperChars) THEN 2 ELSE 1]

\* the sign of a - b
compareNumbers(a, b) == IF a < b THEN 0 - 1 ELSE IF a > b THEN 1 ELSE 0

\* two sequences of weights compared from place i on, a proper prefix first
RECURSIVE compareWeights(_, _, _)
compareWeights(a, b, i) ==
    IF i > Len(a) THEN (IF i > Len(b) THEN 0 ELSE 0 - 1)
    ELSE IF i > Len(b) THEN 1
    ELSE IF a[i] # b[i] THEN compareNumbers(a[i], b[i])
    ELSE compareWeights(a, b, i + 1)

\* a.localeCompare(b): the letters compared without their case first, and when
\* that leaves the texts equal, by the case of the letters
localeCompare(a, b) ==
    IF compareWeights([i \in 1..Len(a) |-> collationWeight[a[i]]],
                      [i \in 1..Len(b) |-> collationWeight[b[i]]], 1) # 0
    THEN compareWeights([i \in 1..Len(a) |-> collationWeight[a[i]]],
                        [i \in 1..Len(b) |-> collationWeight[b[i]]], 1)
    ELSE compareWeights([i \in 1..Len(a) |-> caseWeight[a[i]]],
                        [i \in 1..Len(b) |-> caseWeight[b[i]]], 1)

\* the text of a row's sourceType
sourceTypeText(sourceType) ==
    IF sourceType = "pm" THEN <<"p","m">>
    ELSE <<"c","a","l","i","b","r","a","t","i","o","n">>

\* a.dueDate.localeCompare(b.dueDate) || a.locationName.localeCompare(...) ||
\* a.sourceType.localeCompare(b.sourceType) || a.assetLabel.localeCompare(...):
\* the dates are ten characters of digits and hyphens, so they compare as the
\* numbers that stand for them
rowCompare(a, b) ==
    IF a.dueDate # b.dueDate THEN compareNumbers(a.dueDate, b.dueDate)
    ELSE IF localeCompare(a.locationName, b.locationName) # 0
    THEN localeCompare(a.locationName, b.locationName)
    ELSE IF a.sourceType # b.sourceType
    THEN localeCompare(sourceTypeText(a.sourceType), sourceTypeText(b.sourceType))
    ELSE localeCompare(a.assetLabel, b.assetLabel)

\* the comparison puts a before b
rowBefore(a, b) == rowCompare(a, b) < 0

\* Array.prototype.sort with that comparison, which is stable: the rows are put
\* one after the other into the rows sorted so far, each behind the last row
\* that it does not go before; i is the place looked at, from the end
RECURSIVE insertRow(_, _, _)
insertRow(sorted, row, i) ==
    IF i = 0 \/ ~rowBefore(row, sorted[i])
    THEN SubSeq(sorted, 1, i) \o <<row>> \o SubSeq(sorted, i + 1, Len(sorted))
    ELSE insertRow(sorted, row, i - 1)

\* the first n rows, sorted
RECURSIVE sortFirst(_, _)
sortFirst(rows, n) ==
    IF n = 0 THEN << >>
    ELSE insertRow(sortFirst(rows, n - 1), rows[n], n - 1)

sortRows(rows) == sortFirst(rows, Len(rows))

countStatus(rows, status) == Cardinality({i \in 1..Len(rows) : rows[i].status = status})

\* a mutant of summaryOf: the missed rows are counted in total only
summaryOf_MissedUncounted(rows) ==
    [total |-> Len(rows),
     completedOnTime |-> countStatus(rows, "completed-on-time"),
     completedLate |-> countStatus(rows, "completed-late"),
     missed |-> 0,
     scheduled |-> countStatus(rows, "scheduled")]

\* rows.reduce(...)
summaryOf(rows) ==
    [total |-> Len(rows),
     completedOnTime |-> countStatus(rows, "completed-on-time"),
     completedLate |-> countStatus(rows, "completed-late"),
     missed |-> countStatus(rows, "missed"),
     scheduled |-> Len(rows) - countStatus(rows, "completed-on-time")
                   - countStatus(rows, "completed-late") - countStatus(rows, "missed")]

badRequest(error) == [op |-> "report", status |-> 400, error |-> error]

reportOf(start, end, rows) ==
    [op |-> "report", status |-> 200, start |-> start, end |-> end,
     summary |-> summaryOf(rows), rows |-> rows]

\* the report for a window that passed the checks
reportRows(db, start, end, startDate, endDate, day) ==
    sortRows(pmRows(db, ascending(DOMAIN db.pms), historyInRange(db.pmHistory, start, end),
                    startDate, endDate, day)
             \o calibrationRows(db, ascending(calibrationAssetIds(db)),
                                historyInRange(db.calHistory, start, end),
                                startDate, endDate, day))

checkedReport(db, start, end, day) ==
    IF parseIsoDate(start) = NoDate \/ parseIsoDate(end) = NoDate
    THEN badRequest("Invalid date range")
    ELSE IF parseIsoDate(start) > parseIsoDate(end)
    THEN badRequest("start must be before or equal to end")
    ELSE IF DOMAIN db.pms = {} /\ DOMAIN db.assets = {}
    THEN reportOf(start, end, << >>)
    ELSE reportOf(start, end,
                  reportRows(db, start, end, parseIsoDate(start), parseIsoDate(end), day))

\* the handler: the response to GET /api/reports/pm-compliance?start=&end=
pmComplianceReport(db, start, end, day) ==
    IF ~optionalIsoDateOk(start) \/ ~optionalIsoDateOk(end)
    THEN badRequest("Invalid query params")
    ELSE checkedReport(db, IF start = NoIso THEN defaultStart(day) ELSE start,
                       IF end = NoIso THEN defaultEnd(day) ELSE end, day)

(***************************************************************************)
(* The compliance report over stored obligations and ledgers: SpecReport   *)
(***************************************************************************)
\* the logs that make the ledger the report reads: PM and calibration
\* completions for one of two due dates, late or on the due date
ReportLogs == [dueDate : {20250101, 20250108}, completedAt : {20250105, 20250108}]

\* the days the report is asked for, and the windows asked for: a month, a
\* week with both ends on due dates, one day, the default, and windows refused
ReportTodays == {20250110, 20250120}
ReportWindows ==
    { <<20250101, 20250131>>, <<20250108, 20250115>>, <<20250108, 20250108>>,
      <<NoIso, NoIso>>, <<20250201, 20250101>>, <<20251301, 20251331>>,
      <<NonIsoText, 20250131>> }

InitReport ==
    /\ \E rows \in InitialRows :
          /\ pms = (1 :> rows.pm)
          /\ assets = (1 :> rows.asset)
    /\ pmHistory = {}
    /\ calHistory = {}
    /\ nextId = [pm |-> 1, cal |-> 1]
    /\ locations = oneLocation
    /\ graph = NoGraph
    /\ today \in ReportTodays
    /\ logged = 0
    /\ response = NoResponse
    /\ reqs = << >>
    /\ gen = << >>
    /\ genOut = << >>

ReportLogPmCompletion ==
    \E q \in ReportLogs : serve("pmLog", 1, q.dueDate, q.completedAt, NoText)

ReportLogCalibrationCompletion ==
    \E q \in ReportLogs : serve("calLog", 1, q.dueDate, q.completedAt, NoText)

GetComplianceReport ==
    \E w \in ReportWindows :
        /\ response' = pmComplianceReport(Db, w[1], w[2], today)
        /\ UNCHANGED <<dbVars, graph, today, logged, reqs, gen, genOut>>

NextReport ==
    ReportLogPmCompletion \/ ReportLogCalibrationCompletion \/ GetComplianceReport

SpecReport == InitReport /\ [][NextReport]_vars

\* the status the specification gives an occurrence
ComplianceStatus(dueDate, completedAt, day) ==
    CASE completedAt = NoIso /\ dueDate < day   -> "missed"
      [] completedAt = NoIso /\ dueDate >= day  -> "scheduled"
      [] completedAt # NoIso /\ completedAt <= dueDate -> "completed-on-time"
      [] completedAt # NoIso /\ completedAt > dueDate  -> "completed-late"

\* the completedAt on record for an occurrence, none when there is no record
recordedCompletedAt(row) ==
    entryCompletedAt(historyEntry(
        IF row.sourceType = "pm"
        THEN {h \in pmHistory : h.preventativeMaintenanceId = row.sourceId}
        ELSE {h \in calHistory : h.assetId = row.sourceId},
        row.dueDate))

\* C8: every row of a compliance report, PM or calibration, has the one status
\* that its dueDate, its completedAt and today give: missed or scheduled without
\* a completedAt, by dueDate < today; completed on time or late with one, by
\* completedAt <= dueDate, whatever today is. The completedAt of a row whose
\* due date is inside the window is the one on record for that occurrence.
C8_StatusIsFunctionOfDates ==
    (response.op = "report" /\ response.status = 200) =>
        \A i \in 1..Len(response.rows) :
            /\ response.rows[i].status =
                  ComplianceStatus(response.rows[i].dueDate, response.rows[i].completedAt,
                                   today)
            /\ response.rows[i].happened = (response.rows[i].completedAt # NoIso)
            /\ (response.rows[i].dueDate >= response.start
                /\ response.rows[i].dueDate <= response.end)
                  => response.rows[i].completedAt = recordedCompletedAt(response.rows[i])

\* C8 witness: a report with PM rows of all four statuses, one of them completed
\* on its due date, and a calibration row
C8_AllFourStatuses ==
    /\ response.op = "report" /\ response.status = 200
    /\ \A status \in {"missed", "scheduled", "completed-on-time", "completed-late"} :
          \E i \in 1..Len(response.rows) :
              response.rows[i].sourceType = "pm" /\ response.rows[i].status = status
    /\ \E i \in 1..Len(response.rows) :
          response.rows[i].completedAt = response.rows[i].dueDate
    /\ \E i \in 1..Len(response.rows) : response.rows[i].sourceType = "calibration"

\* the places of the rows of a report that have a status
rowsWithStatus(report, status) ==
    {i \in 1..Len(report.rows) : report.rows[i].status = status}

\* C14: in every compliance report summary.total is the number of rows and the
\* sum of completedOnTime, completedLate, missed and scheduled, and each of the
\* four counters is the number of rows with its status.
C14_SummaryCountsRows ==
    (response.op = "report" /\ response.status = 200) =>
        /\ response.summary.total = Len(response.rows)
        /\ response.summary.total =
              response.summary.completedOnTime + response.summary.completedLate
              + response.summary.missed + response.summary.scheduled
        /\ response.summary.completedOnTime
              = Cardinality(rowsWithStatus(response, "completed-on-time"))
        /\ response.summary.completedLate
              = Cardinality(rowsWithStatus(response, "completed-late"))
        /\ response.summary.missed = Cardinality(rowsWithStatus(response, "missed"))
        /\ response.summary.scheduled = Cardinality(rowsWithStatus(response, "scheduled"))

\* C14 witness: a report of PM and calibration rows in which every counter is
\* at least one and one counter is more than one
C14_EveryCounterPositive ==
    /\ response.op = "report" /\ response.status = 200
    /\ response.summary.completedOnTime >= 1
    /\ response.summary.completedLate >= 1
    /\ response.summary.missed >= 1
    /\ response.summary.scheduled >= 2
    /\ response.summary.total >= 6
    /\ \E i \in 1..Len(response.rows) : response.rows[i].sourceType = "calibration"


\* the rows the report for the window w has for one due date of an obligation
rowsFor(db, w, sourceType, sourceId, dueDate, day) ==
    { i \in 1..Len(pmComplianceReport(db, w[1], w[2], day).rows) :
        /\ pmComplianceReport(db, w[1], w[2], day).rows[i].sourceType = sourceType
        /\ pmComplianceReport(db, w[1], w[2], day).rows[i].sourceId = sourceId
        /\ pmComplianceReport(db, w[1], w[2], day).rows[i].dueDate = dueDate }

\* the report for the window w has a row for the due date that says completed
completedRowFor(db, w, sourceType, sourceId, dueDate, day) ==
    \E i \in rowsFor(db, w, sourceType, sourceId, dueDate, day) :
        pmComplianceReport(db, w[1], w[2], day).rows[i].status
            \in {"completed-on-time", "completed-late"}

\* the windows of SpecReport that are answered with a report
reportedWindows ==
    {w \in ReportWindows : pmComplianceReport(Db, w[1], w[2], today).status = 200}

\* the database after the step
dbAfter ==
    [pms |-> pms', assets |-> assets', pmHistory |-> pmHistory',
     calHistory |-> calHistory', nextId |-> nextId', locations |-> locations']

\* the obligation a served log was for has a rule
loggedRecurring(r) ==
    IF r.op = "pmLog" THEN asRecurrence(pmRecurrenceText(pms[r.id])) # NoText
    ELSE asFlexibleRecurrence(assets[r.id].calFreq) # NoText

loggedSourceType(r) == IF r.op = "pmLog" THEN "pm" ELSE "calibration"

\* C24: a completion log never takes an occurrence out of the report: when the
\* report for a window has a row for due date D of a recurring PM or
\* calibration and a completion is then logged for D, the report for the same
\* window still has a row for D, and the row says completed on time or
\* completed late.
C24_LoggedOccurrenceStaysInReport ==
    [][ ( /\ response'.op \in {"pmLog", "calLog"} /\ response'.status = 201
          /\ loggedRecurring(response') )
        => \A w \in reportedWindows :
              rowsFor(Db, w, loggedSourceType(response'), response'.id,
                      response'.dueDate, today) # {}
                => completedRowFor(dbAfter, w, loggedSourceType(response'),
                                   response'.id, response'.dueDate, today) ]_vars

(***************************************************************************)
(* The compliance report over several obligations: SpecBatch               *)
(***************************************************************************)
\* where: { locationId } on a table
whereLocationId(table, locationId) ==
    [id \in {i \in DOMAIN table : table[i].locationId = locationId} |-> table[id]]

\* recordWhere: the PMs and the assets of one location when the request names
\* one, all of them otherwise
recordWhere(db, locationId) ==
    IF locationId = 0 THEN db
    ELSE [db EXCEPT !.pms = whereLocationId(db.pms, locationId),
                    !.assets = whereLocationId(db.assets, locationId)]

\* range: { start, end, locationId: parsed.data.locationId ?? null }
withLocationId(report, locationId) ==
    [f \in DOMAIN report \cup {"locationId"} |->
        IF f = "locationId" THEN locationId ELSE report[f]]

\* the response to GET /api/reports/pm-compliance?start=&end=&locationId=
complianceReportFor(db, locationId, start, end, day) ==
    withLocationId(pmComplianceReport(recordWhere(db, locationId), start, end, day),
                   locationId)

balanceAid == <<"b","a","l","a","n","c","e">>
scaleAid == <<"S","c","a","l","e">>

\* PMs as POST creates them
BatchPms ==
    { pmRow(weekly, weekly, 20250101, 20250101, NoIso),
      pmRow(monthly, monthly, 20250108, 20250108, NoIso) }

\* PMs that cannot be scheduled: a next-due that is no date, a frequency text
\* that is no rule, neither a rule nor a date
MalformedPms ==
    { pmRow(weekly, weekly, NonIsoText, NonIsoText, NoIso),
      pmRow(NoText, asNeededText, NoIso, 20250108, NoIso),
      pmRow(NoText, NoText, NoIso, NoIso, NoIso) }

\* assets with a calibration: recurring from a free-text frequency, one-time
BatchAssets ==
    { assetRow(everyWeekText, 20250101, NoIso),
      assetRow(NoText, 20250108, NoIso) }

\* assets whose calibration cannot be scheduled: a calDue that is no date, a
\* calFreq text that is no rule, neither of the two
MalformedAssets ==
    { assetRow(biWeekly, NonIsoText, NoIso),
      assetRow(asNeededText, 20250108, NoIso),
      assetRow(NoText, NoIso, NoIso) }

\* the aids of the two assets
BatchAids == { <<balanceAid, scaleAid>>, <<scaleAid, balanceAid>>, <<NoText, NoText>> }

\* the windows the batch report is asked for
BatchWindows ==
    { <<20250101, 20250131>>, <<20250108, 20250108>>, <<NoIso, NoIso>>,
      <<20250201, 20250101>> }

\* two locations; PM 1 on asset 1 in location 1, PM 2 on asset 2, which is in
\* location 1 or in location 2
InitBatch ==
    /\ locations = (1 :> [name |-> enterprise]) @@ (2 :> [name |-> bristol])
    /\ \E second \in {1, 2}, aids \in BatchAids :
          /\ \E pm1 \in BatchPms, pm2 \in BatchPms \cup MalformedPms :
                pms = (1 :> pm1)
                      @@ (2 :> [pm2 EXCEPT !.locationId = second, !.assetId = 2])
          /\ \E asset1 \in BatchAssets, asset2 \in BatchAssets \cup MalformedAssets :
                assets = (1 :> [asset1 EXCEPT !.aid = aids[1]])
                         @@ (2 :> [asset2 EXCEPT !.locationId = second,
                                                 !.aid = aids[2]])
    /\ pmHistory = {}
    /\ calHistory = {}
    /\ nextId = [pm |-> 1, cal |-> 1]
    /\ graph = NoGraph
    /\ today = 20250110
    /\ logged = 0
    /\ response = NoResponse
    /\ reqs = << >>
    /\ gen = << >>
    /\ genOut = << >>

GetBatchComplianceReport ==
    \E w \in BatchWindows, locationId \in {0, 1, 2, 3} :
        /\ response' = complianceReportFor(Db, locationId, w[1], w[2], today)
        /\ UNCHANGED <<dbVars, graph, today, logged, reqs, gen, genOut>>

NextBatch == GetBatchComplianceReport

SpecBatch == InitBatch /\ [][NextBatch]_vars

(***************************************************************************)
(* Claims about the report over several obligations (SpecBatch)            *)
(***************************************************************************)
\* the characters of the names in the order of their code units
codeUnitOrder == <<" ", "#">> \o digitChars \o UpperChars \o LowerChars

codeUnitPlace ==
    [c \in SeqToSet(codeUnitOrder) |->
        CHOOSE i \in 1..Len(codeUnitOrder) : codeUnitOrder[i] = c]

\* two texts compared lexically, character by character
lexicalCompare(a, b) ==
    compareWeights([i \in 1..Len(a) |-> codeUnitPlace[a[i]]],
                   [i \in 1..Len(b) |-> codeUnitPlace[b[i]]], 1)

\* two rows compared as the tuples (dueDate, locationName, sourceType,
\* assetLabel), each field lexically
tupleCompare(a, b) ==
    IF a.dueDate # b.dueDate THEN compareNumbers(a.dueDate, b.dueDate)
    ELSE IF a.locationName # b.locationName
    THEN lexicalCompare(a.locationName, b.locationName)
    ELSE IF a.sourceType # b.sourceType
    THEN lexicalCompare(sourceTypeText(a.sourceType), sourceTypeText(b.sourceType))
    ELSE lexicalCompare(a.assetLabel, b.assetLabel)

\* C15: the rows of every compliance report, PM and calibration rows merged,
\* are in ascending order of the tuple (dueDate, locationName, sourceType,
\* assetLabel), each field compared lexically: of two adjacent rows the first
\* is less than or equal to the second.
C15_RowsOrderedByTuple ==
    (response.op = "report" /\ response.status = 200) =>
        \A i \in 1..(Len(response.rows) - 1) :
            tupleCompare(response.rows[i], response.rows[i + 1]) <= 0

\* the PM cannot be scheduled: its recurrence text is no rule, its anchor text
\* is no date, or it has neither
malformedPm(pm) ==
    \/ pmRecurrenceText(pm) # NoText /\ asRecurrence(pmRecurrenceText(pm)) = NoText
    \/ pmAnchorRaw(pm) # NoIso /\ parseIsoDate(pmAnchorRaw(pm)) = NoDate
    \/ pmRecurrenceText(pm) = NoText /\ pmAnchorRaw(pm) = NoIso

\* the same for the calibration of an asset
malformedCalibration(asset) ==
    \/ asset.calFreq # NoText /\ asFlexibleRecurrence(asset.calFreq) = NoText
    \/ asset.calDue # NoIso /\ parseIsoDate(asset.calDue) = NoDate
    \/ asset.calFreq = NoText /\ asset.calDue = NoIso

\* the rows of a report that are not rows of one obligation
rowsNotOf(rows, sourceType, sourceId) ==
    SelectSeq(rows, LAMBDA r : ~(r.sourceType = sourceType /\ r.sourceId = sourceId))

\* the database without one PM, and without the calibration of one asset
withoutPm(db, id) ==
    [db EXCEPT !.pms = [i \in DOMAIN db.pms \ {id} |-> db.pms[i]]]

withoutCalibration(db, id) ==
    [db EXCEPT !.assets[id].calDue = NoIso, !.assets[id].calFreq = NoText]

\* the report in response has no row of the obligation, and its rows are the
\* rows of the same request answered from the database `without`
contributesNothing(sourceType, sourceId, without) ==
    /\ rowsNotOf(response.rows, sourceType, sourceId) = response.rows
    /\ complianceReportFor(without, response.locationId, response.start, response.end,
                           today).status = 200
    /\ complianceReportFor(without, response.locationId, response.start, response.end,
                           today).rows
         = rowsNotOf(response.rows, sourceType, sourceId)

\* C20: a request for the compliance report over a database with a malformed
\* obligation (anchor text or recurrence text that cannot be parsed, or
\* neither rule nor anchor) is answered with a report, never an error; the
\* malformed obligation has no row in it, and the rows of the other obligations
\* are those of the report over the database without the malformed one.
C20_MalformedObligationSkipped ==
    /\ response.op = "report" => response.status \in {200, 400}
    /\ (response.op = "report" /\ response.status = 200) =>
          /\ \A id \in DOMAIN pms :
                malformedPm(pms[id]) => contributesNothing("pm", id, withoutPm(Db, id))
          /\ \A id \in DOMAIN assets :
                malformedCalibration(assets[id]) =>
                    contributesNothing("calibration", id, withoutCalibration(Db, id))


(***************************************************************************)
(* The calendar feeds and the Microsoft Graph sync: SpecFeed               *)
(***************************************************************************)
\* how many requests to Microsoft (token, list, delete, create) the server has
\* sent when it still takes a sync request
MaxGraphRequests == 3

unassignedAsset == <<"U","n","a","s","s","i","g","n","e","d"," ","A","s","s","e","t">>

\* assetLabelFor(pm.assetId ? assetById[pm.assetId] : null)
feedPmAssetLabel(db, assetId) ==
    IF assetId # 0 /\ assetId \in DOMAIN db.assets THEN assetLabelFor(db, assetId)
    ELSE unassignedAsset

\* `PM Due - ${title}`, `Calibration Due - ${assetLabel}`; the stored PMs have
\* no title, so title is the label of the asset
pmSummary(label) == <<"P","M"," ","D","u","e"," ","-"," ">> \o label

calibrationSummary(label) ==
    <<"C","a","l","i","b","r","a","t","i","o","n"," ","D","u","e"," ","-"," ">> \o label

\* two digits of a number below 100
twoDigits(n) == <<digitChars[(n \div 10) + 1], digitChars[(n % 10) + 1]>>

\* the text YYYY-MM-DD of a date text of the model
isoDateText(value) ==
    twoDigits(IsoYear(value) \div 100) \o twoDigits(IsoYear(value) % 100) \o <<"-">>
    \o twoDigits(IsoMonth(value)) \o <<"-">> \o twoDigits(IsoDay(value))

\* a mutant of eventUid: the kind of the obligation left out
eventUid_NoKind(kind, id, dueDate) ==
    <<"q","u","a","l","g","e","n","-">> \o numberText(id) \o <<"-">>
    \o isoDateText(dueDate) \o <<"@","q","u","a","l","g","e","n",".","l","o","c","a","l">>

\* `qualgen-pm-${pm.id}-${dueDate}@qualgen.local`,
\* `qualgen-cal-${asset.id}-${dueDate}@qualgen.local`
eventUid(kind, id, dueDate) ==
    <<"q","u","a","l","g","e","n","-">>
    \o (IF kind = "pm" THEN <<"p","m">> ELSE <<"c","a","l">>) \o <<"-">>
    \o numberText(id) \o <<"-">> \o isoDateText(dueDate)
    \o <<"@","q","u","a","l","g","e","n",".","l","o","c","a","l">>

\* the events of one obligation
feedEventsOf(kind, id, dueDates, summary) ==
    [i \in 1..Len(dueDates) |->
        [uid |-> eventUid(kind, id, dueDates[i]), date |-> dueDates[i],
         summary |-> summary]]

\* for (const pm of pms) { ... events.push(...) }
RECURSIVE pmFeedEvents(_, _, _, _)
pmFeedEvents(db, ids, startDate, endDate) ==
    IF ids = << >> THEN << >>
    ELSE feedEventsOf("pm", Head(ids),
                      buildDueDatesInRange(db.pms[Head(ids)], startDate, endDate),
                      pmSummary(feedPmAssetLabel(db, db.pms[Head(ids)].assetId)))
         \o pmFeedEvents(db, Tail(ids), startDate, endDate)

\* for (const asset of assets) { ... events.push(...) }
RECURSIVE calibrationFeedEvents(_, _, _, _)
calibrationFeedEvents(db, ids, startDate, endDate) ==
    IF ids = << >> THEN << >>
    ELSE feedEventsOf("cal", Head(ids),
                      buildCalibrationDueDatesInRange(db.assets[Head(ids)], startDate,
                                                      endDate),
                      calibrationSummary(assetLabelFor(db, Head(ids))))
         \o calibrationFeedEvents(db, Tail(ids), startDate, endDate)

\* a.date.localeCompare(b.date) || a.summary.localeCompare(b.summary)
eventBefore(a, b) ==
    IF a.date # b.date THEN a.date < b.date
    ELSE localeCompare(a.summary, b.summary) < 0

\* the place of the last of the sorted events that event does not go before,
\* 0 when it goes before all of them
lastNotAfter(sorted, event) ==
    IF \A i \in 1..Len(sorted) : eventBefore(event, sorted[i]) THEN 0
    ELSE MaxOf({i \in 1..Len(sorted) : ~eventBefore(event, sorted[i])})

insertEventAt(sorted, event, i) ==
    SubSeq(sorted, 1, i) \o <<event>> \o SubSeq(sorted, i + 1, Len(sorted))

\* events.sort(...), stable: the events up to place `to` put one after the
\* other into the events sorted so far, each behind the last one it does not go
\* before; the sorted ones are the first Len(sorted) of events
RECURSIVE insertEvents(_, _, _)
insertEvents(sorted, events, to) ==
    IF Len(sorted) >= to THEN sorted
    ELSE IF Len(sorted) + 1 = to
    THEN insertEventAt(sorted, events[to], lastNotAfter(sorted, events[to]))
    ELSE insertEvents(insertEvents(sorted, events, (Len(sorted) + to) \div 2),
                      events, to)

sortEvents(events) == insertEvents(<< >>, events, Len(events))

\* buildCalendarFeedEvents({ startDate, endDate, locationId })
buildCalendarFeedEvents(db, locationId, startDate, endDate) ==
    sortEvents(
        pmFeedEvents(recordWhere(db, locationId),
                     ascending(DOMAIN recordWhere(db, locationId).pms),
                     startDate, endDate)
        \o calibrationFeedEvents(recordWhere(db, locationId),
                                 ascending(DOMAIN recordWhere(db, locationId).assets),
                                 startDate, endDate))

NoRange == [startDate |-> NoDate, endDate |-> NoDate]

\* resolveFeedRange(start, end): today and today plus 36 months for what the
\* request leaves out; null (NoRange) for a date that does not parse and for a
\* start after the end
resolveFeedRange(start, end, day) ==
    IF (start # NoIso /\ parseIsoDate(start) = NoDate)
       \/ (end # NoIso /\ parseIsoDate(end) = NoDate)
    THEN NoRange
    ELSE IF (IF start # NoIso THEN parseIsoDate(start) ELSE parseIsoDate(day))
            > (IF end # NoIso THEN parseIsoDate(end) ELSE addMonths(parseIsoDate(day), 36))
    THEN NoRange
    ELSE [startDate |-> IF start # NoIso THEN parseIsoDate(start) ELSE parseIsoDate(day),
          endDate |-> IF end # NoIso THEN parseIsoDate(end)
                      ELSE addMonths(parseIsoDate(day), 36)]

feedError(op, status, error) == [op |-> op, status |-> status, error |-> error]

\* res.send(buildIcsCalendar(calendarName, events)): one VEVENT for each event
icsOf(op, events) == [op |-> op, status |-> 200, events |-> events]

\* Number(req.params.locationId) of a path segment that is no number
NotANumber == 0 - 1

\* GET /api/calendar.ics?start=&end=&locationId=
calendarFeed(db, locationId, start, end, day) ==
    IF ~optionalIsoDateOk(start) \/ ~optionalIsoDateOk(end) \/ locationId = NotANumber
    THEN feedError("feed", 400, "Invalid query params")
    ELSE IF resolveFeedRange(start, end, day) = NoRange
    THEN feedError("feed", 400, "Invalid date range")
    ELSE IF locationId # 0 /\ locationId \notin DOMAIN db.locations
    THEN feedError("feed", 404, "Location not found")
    ELSE icsOf("feed", buildCalendarFeedEvents(db, locationId,
                                               resolveFeedRange(start, end, day).startDate,
                                               resolveFeedRange(start, end, day).endDate))

\* GET /api/locations/:locationId/calendar.ics?start=&end=
locationCalendarFeed(db, locationId, start, end, day) ==
    IF locationId = NotANumber
    THEN feedError("locationFeed", 400, "Invalid location id")
    ELSE IF ~optionalIsoDateOk(start) \/ ~optionalIsoDateOk(end)
    THEN feedError("locationFeed", 400, "Invalid query params")
    ELSE IF resolveFeedRange(start, end, day) = NoRange
    THEN feedError("locationFeed", 400, "Invalid date range")
    ELSE IF locationId \notin DOMAIN db.locations
    THEN feedError("locationFeed", 404, "Location not found")
    ELSE icsOf("locationFeed",
               buildCalendarFeedEvents(db, locationId,
                                       resolveFeedRange(start, end, day).startDate,
                                       resolveFeedRange(start, end, day).endDate))

msGraphCategory == <<"Q","u","a","l","g","e","n"," ","S","y","n","c">>

msGraphSubjectPrefix == << >>

\* subject.startsWith(prefix)
startsWith(value, prefix) ==
    Len(prefix) <= Len(value) /\ SubSeq(value, 1, Len(prefix)) = prefix

\* managedByCategory || managedBySubject
managedEvent(e) ==
    msGraphCategory \in e.categories \/ startsWith(e.subject, msGraphSubjectPrefix)

\* listManagedMsGraphEvents: of the events of the calendar that overlap the
\* window (start before the day after endDate, end after startDate) those that
\* carry the category or whose subject starts with the prefix
listManagedMsGraphEvents(calendar, startDate, endDate) ==
    {e \in calendar : /\ parseIsoDate(e.date) <= endDate
                      /\ addDays(parseIsoDate(e.date), 1) > startDate
                      /\ managedEvent(e)}

\* the body of the POST for one event
msGraphEventOf(event) ==
    [subject |-> msGraphSubjectPrefix \o event.summary, date |-> event.date,
     categories |-> {msGraphCategory}, transactionId |-> event.uid]

\* the events the sync creates: for (const event of events) { POST ... }
createdMsGraphEvents(events) == {msGraphEventOf(events[i]) : i \in 1..Len(events)}

\* what a sync run leaves: the calendar, the requests sent, and its result
syncRun(g, events, managed, dryRun) ==
    [graph |-> [g EXCEPT !.events = IF dryRun THEN g.events
                                    ELSE (g.events \ managed)
                                         \cup createdMsGraphEvents(events),
                         !.requests = g.requests + 2
                                      + (IF dryRun THEN 0
                                         ELSE Cardinality(managed) + Len(events))],
     result |-> [op |-> "sync", status |-> 200, dryRun |-> dryRun,
                 sourceEventCount |-> Len(events),
                 managedEventCount |-> Cardinality(managed),
                 deletedCount |-> IF dryRun THEN 0 ELSE Cardinality(managed),
                 createdCount |-> IF dryRun THEN 0 ELSE Len(events)]]

notSynced(g, result) == [graph |-> g, result |-> result]

\* syncMsGraphCalendar inside the try of the handler: without the settings it
\* throws before any request is sent, and the handler answers 500
syncMsGraphCalendar(db, g, locationId, range, dryRun) ==
    IF ~g.configured
    THEN notSynced(g, feedError("sync", 500, "Microsoft Graph is not configured"))
    ELSE syncRun(g, buildCalendarFeedEvents(db, locationId, range.startDate,
                                            range.endDate),
                 listManagedMsGraphEvents(g.events, range.startDate, range.endDate),
                 dryRun)

\* res.json({ range: { start, end, locationId }, ...result })
ranged(out, range, locationId) ==
    IF out.result.status # 200 THEN out
    ELSE [out EXCEPT !.result =
            [f \in DOMAIN out.result \cup {"range"} |->
                IF f = "range"
                THEN [start |-> toIsoDate(range.startDate),
                      end |-> toIsoDate(range.endDate), locationId |-> locationId]
                ELSE out.result[f]]]

\* POST /api/integrations/ms-graph/sync { start, end, locationId, dryRun }
msGraphSync(db, g, locationId, start, end, dryRun, day) ==
    IF ~optionalIsoDateOk(start) \/ ~optionalIsoDateOk(end) \/ locationId = NotANumber
    THEN notSynced(g, feedError("sync", 400, "Invalid payload"))
    ELSE IF resolveFeedRange(start, end, day) = NoRange
    THEN notSynced(g, feedError("sync", 400, "Invalid date range"))
    ELSE IF locationId # 0 /\ locationId \notin DOMAIN db.locations
    THEN notSynced(g, feedError("sync", 404, "Location not found"))
    ELSE ranged(syncMsGraphCalendar(db, g, locationId,
                                    resolveFeedRange(start, end, day), dryRun),
                resolveFeedRange(start, end, day), locationId)

\* the request that was served, next to its answer
answered(answer, locationId, start, end) ==
    [f \in DOMAIN answer \cup {"asked"} |->
        IF f = "asked" THEN [locationId |-> locationId, start |-> start, end |-> end]
        ELSE answer[f]]

\* the stored obligations of the feeds: a monthly PM and a yearly calibration,
\* a PM from before the recurrence column and a one-time calibration, and
\* obligations that cannot be scheduled
FeedRows ==
    {rows \in InitialRows : rows.pm.nextDue \in {20250131, 20250108, NonIsoText}}

\* the windows asked for: a month, one day, the default, up to a day before
\* today, start after end, the thirteenth month, a text of another form, the
\* thirtieth of February
FeedWindows ==
    { <<20250101, 20250131>>, <<20250108, 20250108>>, <<NoIso, NoIso>>,
      <<NoIso, 20250105>>, <<20250201, 20250101>>, <<20251301, 20251331>>,
      <<20250101, NonIsoText>>, <<20250230, 20250331>>, <<20250230, 20250301>> }

FeedLocationIds == {0, 1, 3, NotANumber}

\* an event somebody put into the calendar by hand
lunch ==
    [subject |-> <<"L","u","n","c","h">>, date |-> 20250108, categories |-> {},
     transactionId |-> NoText]

InitFeed ==
    /\ \E rows \in FeedRows :
          /\ pms = (1 :> rows.pm)
          /\ assets = (1 :> rows.asset)
    /\ pmHistory = {}
    /\ calHistory = {}
    /\ nextId = [pm |-> 1, cal |-> 1]
    /\ locations = oneLocation
    /\ graph \in {NoGraph} \cup [configured : {TRUE}, events : {{}, {lunch}}, requests : {0}]
    /\ today = 20250110
    /\ logged = 0
    /\ response = NoResponse
    /\ reqs = << >>
    /\ gen = << >>
    /\ genOut = << >>

FeedGetComplianceReport ==
    \E w \in FeedWindows, locationId \in FeedLocationIds \ {NotANumber} :
        /\ response' = answered(complianceReportFor(Db, locationId, w[1], w[2], today),
                                locationId, w[1], w[2])
        /\ UNCHANGED <<dbVars, graph, today, logged, reqs, gen, genOut>>

GetCalendarFeed ==
    \E w \in FeedWindows, locationId \in FeedLocationIds :
        /\ response' = answered(calendarFeed(Db, locationId, w[1], w[2], today),
                                locationId, w[1], w[2])
        /\ UNCHANGED <<dbVars, graph, today, logged, reqs, gen, genOut>>

GetLocationCalendarFeed ==
    \E w \in FeedWindows, locationId \in FeedLocationIds \ {0} :
        /\ response' = answered(locationCalendarFeed(Db, locationId, w[1], w[2], today),
                                locationId, w[1], w[2])
        /\ UNCHANGED <<dbVars, graph, today, logged, reqs, gen, genOut>>

synced(out, locationId, start, end) ==
    /\ graph' = out.graph
    /\ response' = answered(out.result, locationId, start, end)

PostMsGraphSync ==
    \E w \in FeedWindows, locationId \in FeedLocationIds, dryRun \in BOOLEAN :
        /\ graph.requests < MaxGraphRequests
        /\ synced(msGraphSync(Db, graph, locationId, w[1], w[2], dryRun, today),
                  locationId, w[1], w[2])
        /\ UNCHANGED <<dbVars, today, logged, reqs, gen, genOut>>

NextFeed ==
    FeedGetComplianceReport \/ GetCalendarFeed \/ GetLocationCalendarFeed
    \/ PostMsGraphSync

SpecFeed == InitFeed /\ [][NextFeed]_vars

(***************************************************************************)
(* Claims about the events of the feeds (SpecFeed)                         *)
(***************************************************************************)
\* a feed that was answered with its events
isFeed(r) == r.op \in {"feed", "locationFeed"} /\ r.status = 200

uidsOf(events) == {events[i].uid : i \in 1..Len(events)}

\* the kind of obligation an event is for, read from its summary
kindOfEvent(event) == IF event.summary[1] = "P" THEN "pm" ELSE "cal"

\* C21: the uid of a feed event is made of the kind of the obligation, its id
\* and the due date, and of nothing else: no two events of one feed have the
\* same uid, the event of a PM and the event of a calibration never have the
\* same uid, also for the same id and the same due date, and a feed built again
\* for the same stored data, location and window has the same set of uids.
C21_UidFunctionOfSource ==
    [][ isFeed(response') =>
          /\ \A i, j \in 1..Len(response'.events) :
                i # j => response'.events[i].uid # response'.events[j].uid
          /\ \A i, j \in 1..Len(response'.events) :
                kindOfEvent(response'.events[i]) # kindOfEvent(response'.events[j])
                    => response'.events[i].uid # response'.events[j].uid
          /\ \A i \in 1..Len(response'.events) :
                \E id \in DOMAIN pms \cup DOMAIN assets :
                    response'.events[i].uid
                        = eventUid(kindOfEvent(response'.events[i]), id,
                                   response'.events[i].date)
          /\ (isFeed(response) /\ response.asked = response'.asked /\ UNCHANGED dbVars)
                => uidsOf(response'.events) = uidsOf(response.events) ]_vars

\* C21 witness: a feed with the event of PM 1 and the event of the calibration
\* of asset 1 on the same due date
C21_PmAndCalibrationSameDay ==
    /\ isFeed(response)
    /\ \E i, j \in 1..Len(response.events) :
          /\ kindOfEvent(response.events[i]) = "pm"
          /\ kindOfEvent(response.events[j]) = "cal"
          /\ response.events[i].date = response.events[j].date
          /\ response.events[i].uid = eventUid("pm", 1, response.events[i].date)
          /\ response.events[j].uid = eventUid("cal", 1, response.events[j].date)

(***************************************************************************)
(* Claims about the Microsoft Graph sync (SpecFeed)                        *)
(***************************************************************************)
\* C26: a sync that is no dry run deletes only events that carry the category
\* 'Qualgen Sync': an event of the calendar without the category is still in
\* the calendar after the sync, also when it lies in the window; a dry run
\* deletes nothing and creates nothing (it sends the token request and the list
\* request and leaves the calendar as it was).
C26_SyncDeletesOnlyManaged ==
    [][ (response'.op = "sync" /\ response'.status = 200) =>
          /\ \A e \in graph.events :
                msGraphCategory \notin e.categories => e \in graph'.events
          /\ response'.dryRun =>
                /\ graph'.events = graph.events
                /\ graph'.requests = graph.requests + 2 ]_vars

(***************************************************************************)
(* Claims about the window of a request (SpecFeed)                         *)
(***************************************************************************)
\* a date text of a request that is given and names no day of the calendar
notADate(s) == s # NoIso /\ ~isCalendarDate(s)

\* the window of a request, with what the endpoint takes for a date left out:
\* the month of today for the report, today and 36 months later for the others
windowStart(op, start, day) ==
    IF start # NoIso THEN start
    ELSE IF op = "report" THEN defaultStart(day) ELSE day

windowEnd(op, end, day) ==
    IF end # NoIso THEN end
    ELSE IF op = "report" THEN defaultEnd(day)
    ELSE toIsoDate(addMonths(parseIsoDate(day), 36))

\* a date that does not parse, or start after end
invalidWindow(op, asked, day) ==
    \/ notADate(asked.start)
    \/ notADate(asked.end)
    \/ windowStart(op, asked.start, day) > windowEnd(op, asked.end, day)

\* answered 400, with no report rows and no feed events
refused(r) == r.status = 400 /\ "rows" \notin DOMAIN r /\ "events" \notin DOMAIN r

\* C19: a request whose start or end is no date, or whose start is after its
\* end, is answered 400 with no rows and no events, and no request goes to
\* Microsoft Graph for it (the calendar and the count of requests sent stay as
\* they were); so for the report, both feeds and the sync. A window of one day,
\* start = end, is not refused.
C19_InvalidWindowRefused ==
    [][ "asked" \in DOMAIN response' =>
          /\ invalidWindow(response'.op, response'.asked, today) =>
                refused(response') /\ graph' = graph
          /\ ( /\ response'.asked.start = response'.asked.end
               /\ isCalendarDate(response'.asked.start)
               /\ response'.asked.locationId # NotANumber )
             => response'.status # 400 ]_vars

(***************************************************************************)
(* The calendar view of the frontend (App.vue)                             *)
(***************************************************************************)
\* parseIsoDate of the frontend: new Date(`${value}T00:00:00`) with no test of
\* the form first; a text that is no date-time gives Invalid Date and null, a
\* day the month does not have rolls over into the next month
calendarParseIsoDate(value) ==
    IF value = NoIso THEN NoDate
    ELSE IF value = NonIsoText THEN NoDate
    ELSE IF IsoMonth(value) \notin 1..12 \/ IsoDay(value) \notin 1..31 THEN NoDate
    ELSE DaysFromCivil(IsoYear(value), IsoMonth(value), IsoDay(value))

asRecurrenceValue(value) == IF value \in recurrenceValues THEN value ELSE NoText

recurrenceFromFrequencyText(value) ==
    IF value = NoText THEN NoText
    ELSE IF asRecurrenceValue(normalizeRecurrenceText(value)) # NoText
    THEN asRecurrenceValue(normalizeRecurrenceText(value))
    ELSE IF \E a \in aliases : a[1] = normalizeRecurrenceText(value)
    THEN (CHOOSE a \in aliases : a[1] = normalizeRecurrenceText(value))[2]
    ELSE NoText

\* getMonthBounds: the first day of the month at 00:00 and its last day at
\* 23:59:59.999; occurrences are at 00:00, so `occurrence <= end` is a
\* comparison of days
getMonthBounds(year, monthNumber) ==
    [start |-> DaysFromCivil(year, monthNumber, 1),
     end   |-> DaysFromCivil(year, monthNumber, DaysInMonth(year, monthNumber))]

\* the dates of the PM events buildLocationEventsBetween makes for one item
calendarPmDates(item, startBoundary, endBoundary) ==
    IF asRecurrenceValue(pmRecurrenceText(item)) = NoText
       \/ calendarParseIsoDate(item.nextDue) = NoDate
    THEN << >>
    ELSE dueDateLoops(calendarParseIsoDate(item.nextDue),
                      asRecurrenceValue(pmRecurrenceText(item)),
                      startBoundary, endBoundary, FastForwardCap, CalendarTotalCap).dueDates

\* the dates of the calibration events it makes for one asset
calendarCalibrationDates(asset, startBoundary, endBoundary) ==
    IF calendarParseIsoDate(asset.calDue) = NoDate THEN << >>
    ELSE IF recurrenceFromFrequencyText(asset.calFreq) = NoText
    THEN IF calendarParseIsoDate(asset.calDue) >= startBoundary
            /\ calendarParseIsoDate(asset.calDue) <= endBoundary
         THEN <<toIsoDate(calendarParseIsoDate(asset.calDue))>>
         ELSE << >>
    ELSE dueDateLoops(calendarParseIsoDate(asset.calDue),
                      recurrenceFromFrequencyText(asset.calFreq),
                      startBoundary, endBoundary, FastForwardCap, CalendarTotalCap).dueDates

\* the due dates of one obligation's rows in a report
reportDueDates(report, sourceType, sourceId) ==
    {report.rows[i].dueDate :
        i \in {j \in 1..Len(report.rows) : report.rows[j].sourceType = sourceType
                                           /\ report.rows[j].sourceId = sourceId}}

\* loadPmComplianceReport: the report asked for the month the calendar shows
monthReport(db, bounds, day) ==
    pmComplianceReport(db, toIsoDate(bounds.start), toIsoDate(bounds.end), day)

\* the calendar and the report of one month show the same due dates
sameDueDates(db, bounds, report) ==
    /\ \A id \in DOMAIN db.pms :
          SeqToSet(calendarPmDates(db.pms[id], bounds.start, bounds.end))
            = reportDueDates(report, "pm", id)
    /\ \A id \in DOMAIN db.assets :
          SeqToSet(calendarCalibrationDates(db.assets[id], bounds.start, bounds.end))
            = reportDueDates(report, "calibration", id)

CalendarMonths == { <<2024, 12>>, <<2025, 1>>, <<2025, 2>>, <<2025, 3>> }

\* C9: in every stored state, also after completions have been logged, and for
\* every calendar month, the due dates the calendar view computes for a PM or a
\* calibration are the due dates of the obligation's rows in the compliance
\* report for that month.
C9_CalendarAgreesWithReport ==
    \A month \in CalendarMonths :
        sameDueDates(Db, getMonthBounds(month[1], month[2]),
                     monthReport(Db, getMonthBounds(month[1], month[2]), today))

(***************************************************************************)
(* Deleting a calibration record and deleting an asset: SpecDelete         *)
(***************************************************************************)
MaxDeleteRequests == 4

\* rows without the named keys
without(table, ids) == [i \in DOMAIN table \ ids |-> table[i]]

\* syncAssetLastCalibrationFromHistory(assetId, transaction): the latest
\* completedAt of the asset's records, else the stored value, saved when it
\* differs
syncAssetLastCalibrationFromHistory_Cleared(db, assetId) ==
    IF assetId \notin DOMAIN db.assets THEN db
    ELSE [db EXCEPT !.assets[assetId].lastCalibration =
                        getLatestCompletedCalibrationDateForAsset(db, assetId)]

syncAssetLastCalibrationFromHistory(db, assetId) ==
    IF assetId \notin DOMAIN db.assets THEN db
    ELSE LET normalizedCurrent == db.assets[assetId].lastCalibration
             latestCompletedAt_ == getLatestCompletedCalibrationDateForAsset(db, assetId)
             normalizedNext == IF latestCompletedAt_ # NoIso THEN latestCompletedAt_
                               ELSE normalizedCurrent
         IN  IF normalizedCurrent # normalizedNext
             THEN [db EXCEPT !.assets[assetId].lastCalibration = normalizedNext]
             ELSE db

\* the transaction of DELETE /api/calibration-history/:id once the entry is
\* found: destroy, then the sync of the asset
destroyCalibrationEntry(db, entry) ==
    syncAssetLastCalibrationFromHistory(
        [db EXCEPT !.calHistory = {h \in db.calHistory : h.id # entry.id}],
        entry.assetId)

\* DELETE /api/calibration-history/:id: 400 for an id that is no number, 404
\* when no entry has the id, 500 and the transaction rolled back when a
\* statement fails, else the entry destroyed and the asset synced
deleteCalibrationHistory(db, id, failsAt) ==
    LET found == {h \in db.calHistory : h.id = id}
        answer(status, deleted) ==
            [op |-> "calDelete", id |-> id, status |-> status, deleted |-> deleted]
    IN  IF id = NotANumber THEN [db |-> db, response |-> answer(400, FALSE)]
        ELSE IF failsAt # 0 THEN [db |-> db, response |-> answer(500, FALSE)]
        ELSE IF found = {} THEN [db |-> db, response |-> answer(404, FALSE)]
        ELSE [db |-> destroyCalibrationEntry(db, CHOOSE h \in found : TRUE),
              response |-> answer(200, TRUE)]

\* the statements of the transaction of DELETE /api/assets/:id, in order: the
\* database after each
linkedPmIds(db, id) == {p \in DOMAIN db.pms : db.pms[p].assetId = id}

destroyPmHistoryOfPms(db, pmIds) ==
    IF pmIds # {}
    THEN [db EXCEPT !.pmHistory =
             {h \in db.pmHistory : h.preventativeMaintenanceId \notin pmIds}]
    ELSE db

destroyPmHistoryOfAsset(db, id) ==
    [db EXCEPT !.pmHistory = {h \in db.pmHistory : h.assetId # id}]

destroyCalibrationHistoryOfAsset_Kept(db, id) == db

destroyCalibrationHistoryOfAsset(db, id) ==
    [db EXCEPT !.calHistory = {h \in db.calHistory : h.assetId # id}]

destroyPmsOfAsset(db, id) ==
    [db EXCEPT !.pms = without(db.pms, linkedPmIds(db, id))]

destroyAsset(db, id) == [db EXCEPT !.assets = without(db.assets, {id})]

\* the database inside the transaction after its first n statements
RECURSIVE afterStatements(_, _, _, _)
afterStatements(db, id, pmIds, n) ==
    IF n <= 1 THEN db
    ELSE LET before == afterStatements(db, id, pmIds, n - 1)
         IN  CASE n = 2 -> destroyPmHistoryOfPms(before, pmIds)
               [] n = 3 -> destroyPmHistoryOfAsset(before, id)
               [] n = 4 -> destroyCalibrationHistoryOfAsset(before, id)
               [] n = 5 -> destroyPmsOfAsset(before, id)
               [] OTHER -> destroyAsset(before, id)

\* DELETE /api/assets/:id: 400 for an id that is no number; the statements up
\* to the one that fails are rolled back and the answer is 500; else all six
\* are committed and the answer says whether an asset row was destroyed
deleteAsset(db, id, failsAt) ==
    LET answer(status, deleted) ==
            [op |-> "assetDelete", id |-> id, status |-> status, deleted |-> deleted]
        inTransaction(n) == afterStatements(db, id, linkedPmIds(db, id), n)
    IN  IF id = NotANumber THEN [db |-> db, response |-> answer(400, FALSE)]
        ELSE IF failsAt # 0
        THEN [db |-> db, response |-> answer(500, FALSE)]
        ELSE [db |-> inTransaction(6),
              response |-> answer(200, id \in DOMAIN db.assets)]

\* two assets of one location, each with one PM, as InitialRows stores them
DeleteRows == {rows \in InitialRows : rows.pm.nextDue \in {20250101, 20250131}}

\* the completions logged before anything is deleted
DeleteCalibrationLogs ==
    [id : {1, 2}, dueDate : {20250101, 20250108}, completedAt : {20250105, 20250108}]
DeletePmLogs == [id : {1, 2}, dueDate : {20250101}, completedAt : {20250105}]

\* the ids asked to be deleted: of rows there may be, of none, and no number
DeleteIds == {1, 2, 3, NotANumber}
\* the statement of a transaction at which the database fails it; 0: none does
FailsAt == {0, 2, 5}

InitDelete ==
    /\ \E rows \in DeleteRows :
          /\ pms = (1 :> rows.pm) @@ (2 :> [rows.pm EXCEPT !.assetId = 2])
          /\ assets = (1 :> rows.asset) @@ (2 :> rows.asset)
    /\ pmHistory = {}
    /\ calHistory = {}
    /\ nextId = [pm |-> 1, cal |-> 1]
    /\ locations = oneLocation
    /\ graph = NoGraph
    /\ today = 20250110
    /\ logged = 0
    /\ response = NoResponse
    /\ reqs = << >>
    /\ gen = << >>
    /\ genOut = << >>

\* one more request, served with no other request in between
deleteServed(out) ==
    /\ logged < MaxDeleteRequests
    /\ logged' = logged + 1
    /\ pms' = out.db.pms
    /\ assets' = out.db.assets
    /\ pmHistory' = out.db.pmHistory
    /\ calHistory' = out.db.calHistory
    /\ nextId' = out.db.nextId
    /\ locations' = out.db.locations
    /\ response' = out.response
    /\ UNCHANGED <<graph, today, reqs, gen, genOut>>

logBeforeDelete(op, q) ==
    /\ logged < MaxDeleteRequests
    /\ logged' = logged + 1
    /\ served(runToEnd(Db, newRequest(op, q.id, q.dueDate, q.completedAt, NoText), today))
    /\ UNCHANGED <<graph, today, reqs, gen, genOut>>

DeleteLogPmCompletion == \E q \in DeletePmLogs : logBeforeDelete("pmLog", q)

DeleteLogCalibrationCompletion ==
    \E q \in DeleteCalibrationLogs : logBeforeDelete("calLog", q)

DeleteCalibrationHistory ==
    \E id \in DeleteIds, failsAt \in FailsAt :
        deleteServed(deleteCalibrationHistory(Db, id, failsAt))

DeleteAsset ==
    \E id \in DeleteIds, failsAt \in FailsAt : deleteServed(deleteAsset(Db, id, failsAt))

NextDelete ==
    \/ DeleteLogPmCompletion
    \/ DeleteLogCalibrationCompletion
    \/ DeleteCalibrationHistory
    \/ DeleteAsset

SpecDelete == InitDelete /\ [][NextDelete]_vars

(***************************************************************************)
(* Claims about deleting a calibration record                              *)
(***************************************************************************)
\* the completedAt values of the records an asset has left
remainingCompletedAt(history, assetId) ==
    {h.completedAt : h \in {x \in history : x.assetId = assetId /\ x.completedAt # NoIso}}

lastCalibrationIsLatest ==
    \A a \in DOMAIN assets :
        remainingCompletedAt(calHistory, a) # {}
            => assets[a].lastCalibration = MaxOf(remainingCompletedAt(calHistory, a))

calibrationEntryDeleted ==
    response'.op = "calDelete"
        => \A a \in DOMAIN assets :
              /\ a \in DOMAIN assets'
              /\ assets'[a].calDue = assets[a].calDue
              /\ (remainingCompletedAt(calHistory', a) = {}
                    => assets'[a].lastCalibration = assets[a].lastCalibration)

\* C28: after any sequence of calibration completion logs and deletions of
\* calibration records, an asset that has a record with a completedAt left
\* stores the maximum of these completedAt values as lastCalibration; a
\* deletion that leaves the asset no such record keeps the stored
\* lastCalibration, and no deletion of a calibration record changes calDue.
C28_LastCalibrationFollowsHistory ==
    []lastCalibrationIsLatest /\ [][calibrationEntryDeleted]_vars

\* two completions logged for asset 1, which had no lastCalibration, on
\* 2025-01-05 and 2025-01-08; the record of 2025-01-08 deleted, which takes
\* lastCalibration back to 2025-01-05; then the last record deleted, and
\* lastCalibration is still 2025-01-05
C28_LastRecordDeleted ==
    /\ logged = 4
    /\ response.op = "calDelete" /\ response.status = 200
    /\ nextId.cal = 3
    /\ calHistory = {}
    /\ 1 \in DOMAIN assets
    /\ assets[1].calFreq = everyWeekText
    /\ assets[1].calDue = 20250115
    /\ assets[1].lastCalibration = 20250105

(***************************************************************************)
(* Claims about deleting an asset                                          *)
(***************************************************************************)
\* what a committed delete of an asset leaves: no asset row, no PM of the
\* asset, no record of the asset or of one of the PMs it had
assetDeleteCommitted ==
    (response'.op = "assetDelete" /\ response'.status = 200)
        => /\ response'.id \notin DOMAIN assets'
           /\ \A p \in DOMAIN pms' : pms'[p].assetId # response'.id
           /\ \A h \in pmHistory' :
                 /\ h.assetId # response'.id
                 /\ h.preventativeMaintenanceId \notin linkedPmIds(Db, response'.id)
                 /\ h.preventativeMaintenanceId \in DOMAIN pms'
           /\ \A h \in calHistory' : h.assetId # response'.id

assetDeleteFailed ==
    (response'.op = "assetDelete" /\ response'.status = 500) => UNCHANGED dbVars

\* C29: a delete of an asset that succeeds leaves no PM linked to the asset,
\* no PM completion record of such a PM or of the asset and no calibration
\* record of the asset; a delete that fails at any statement leaves every
\* table as it was.
C29_AssetDeleteCascades == [][assetDeleteCommitted /\ assetDeleteFailed]_vars

\* a completion logged for PM 1 and for PM 2 and a calibration logged for
\* asset 1, then asset 1 deleted: PM 2 of asset 2 and its record are what is
\* left
C29_AssetOneDeleted ==
    /\ logged = 4
    /\ response.op = "assetDelete" /\ response.status = 200 /\ response.deleted
    /\ response.id = 1
    /\ nextId = [pm |-> 3, cal |-> 2]
    /\ DOMAIN assets = {2}
    /\ DOMAIN pms = {2}
    /\ calHistory = {}
    /\ Cardinality(pmHistory) = 1
    /\ \A h \in pmHistory : h.preventativeMaintenanceId = 2 /\ h.assetId = 2

====
